---- MODULE Spec2Model ----
(***************************************************************************)
(* discord-feed: a Danbooru poller (one repeating poll per tag key, a      *)
(* persisted cursor per key), an event bus keyed by tag key, a Discord     *)
(* webhook dispatcher with retry on HTTP 429, and the FeedManager that     *)
(* starts and stops feeds from the rows of the SQLite store.               *)
(*                                                                         *)
(* Strings that the program takes apart (tags, tag keys) are sequences of  *)
(* one-character strings; names and URLs that it only compares are plain   *)
(* strings.  One action is one run-to-completion block of the Node.js      *)
(* event loop: a public call, a timer firing, or the continuation after an *)
(* await.                                                                  *)
(***************************************************************************)
EXTENDS Integers, Sequences, FiniteSets, TLC

\* ---------------------------------------------------------------- bounds
\* upstream post ids are 1..MaxId
MaxId == 2
\* polls begun in one behaviour
MaxPolls == 2
\* HTTP 429 answers given in one behaviour
Max429 == 1
\* non-429 webhook failures given in one behaviour
MaxPostErrors == 1
\* HTTP 429 answers given in one behaviour of SpecRetry
MaxStorm429 == 10
\* the clock of SpecDedupe runs to MaxHalfMinutes * 30000 + 1 ms
MaxHalfMinutes == 4
\* DiscordFeed instances built in one behaviour of SpecBus
MaxListeners == 2
\* length of the tag lists handed to getTagKey in SpecKey
MaxTags == 2
\* length of a tag in SpecKey
MaxTagLen == 2
\* rows inserted into each of the tables webhooks and feeds in one behaviour
MaxNewRows == 1
\* longest array makeReadableList is called with
MaxListLen == 4
\* polls a behaviour of SpecShare begins beyond MaxPolls
MaxRestarts == 1

\* ------------------------------------------------------ program constants
\* SQL NULL / undefined in an integer column or field
Null == -1
\* addFeed: feedConfig.pollingIntervalMs ?? 30000
DefaultPollingIntervalMs == 30000
\* addFeed: feedConfig.batchSize ?? 3
DefaultBatchSize == 3
\* handleNewImage: const maxAttempts = 5
maxAttempts == 5

\* ----------------------------------------------------------------- util.ts
\* the letters tags are written with
Chars == {"a", "b", "A", "B"}

\* String.prototype.toLowerCase, one character
LowerChar(c) == CASE c = "A" -> "a" [] c = "B" -> "b" [] OTHER -> c

\* String.prototype.toLowerCase
toLowerCase(s) == [i \in 1..Len(s) |-> LowerChar(s[i])]

\* collation rank of a lower-case character
CharRank(c) == CASE c = "a" -> 1 [] c = "b" -> 2 [] c = "A" -> 1 [] c = "B" -> 2 [] OTHER -> 0

RECURSIVE localeCompare(_, _)
\* String.prototype.localeCompare on the strings getTagKey hands it
localeCompare(x, y) ==
  IF x = <<>> /\ y = <<>> THEN 0
  ELSE IF x = <<>> THEN -1
  ELSE IF y = <<>> THEN 1
  ELSE IF CharRank(Head(x)) < CharRank(Head(y)) THEN -1
  ELSE IF CharRank(Head(x)) > CharRank(Head(y)) THEN 1
  ELSE localeCompare(Tail(x), Tail(y))

\* the comparator of getTagKey: (a, b) => a.toLowerCase().localeCompare(b.toLowerCase())
TagCompare(a, b) == localeCompare(toLowerCase(a), toLowerCase(b))

RECURSIVE InsertTag(_, _)
\* one step of the stable sort: x goes after every element that does not compare greater
InsertTag(s, x) ==
  IF s = <<>> THEN <<x>>
  ELSE IF TagCompare(Head(s), x) <= 0 THEN <<Head(s)>> \o InsertTag(Tail(s), x)
  ELSE <<x>> \o s

RECURSIVE toSorted(_)
\* Array.prototype.toSorted with TagCompare (a stable sort)
toSorted(tags) ==
  IF tags = <<>> THEN <<>>
  ELSE InsertTag(toSorted(SubSeq(tags, 1, Len(tags) - 1)), tags[Len(tags)])

RECURSIVE join(_, _)
\* Array.prototype.join
join(list, sep) ==
  IF list = <<>> THEN <<>>
  ELSE IF Len(list) = 1 THEN list[1]
  ELSE list[1] \o <<sep>> \o join(Tail(list), sep)

\* getTagKey
getTagKey(tags) == join(toSorted(tags), "+")

RECURSIVE joinStrings(_, _)
\* Array.prototype.join with a separator of several characters
joinStrings(list, sep) ==
  IF list = <<>> THEN <<>>
  ELSE IF Len(list) = 1 THEN list[1]
  ELSE list[1] \o sep \o joinStrings(Tail(list), sep)

\* mutant of makeReadableList: the last element is rewritten in the array it was given
makeReadableList_InPlace(list) ==
  IF Len(list) = 0 THEN [list |-> list, ret |-> <<>>]
  ELSE IF Len(list) = 1 THEN [list |-> list, ret |-> list[1]]
  ELSE IF Len(list) = 2
    THEN [list |-> list, ret |-> list[1] \o <<" ", "a", "n", "d", " ">> \o list[2]]
  ELSE LET copy == [list EXCEPT ![Len(list)] = <<"a", "n", "d", " ">> \o @]
       IN [list |-> copy, ret |-> joinStrings(copy, <<",", " ">>)]

\* makeReadableList: what it returns, and the array it was given as the call leaves it
makeReadableList(list) ==
  IF Len(list) = 0 THEN [list |-> list, ret |-> <<>>]
  ELSE IF Len(list) = 1 THEN [list |-> list, ret |-> list[1]]
  ELSE IF Len(list) = 2
    THEN [list |-> list, ret |-> list[1] \o <<" ", "a", "n", "d", " ">> \o list[2]]
  ELSE LET copy == [list EXCEPT ![Len(list)] = <<"a", "n", "d", " ">> \o @]
       IN [list |-> list, ret |-> joinStrings(copy, <<",", " ">>)]

\* --------------------------------------------------------------- the state
VARIABLES
  \* the posts of the upstream site: id -> the fields of its record that matter here
  upstream,
  \* table webhooks(id, name, url)
  webhooks,
  \* table feeds(id, name, tags, pollingIntervalMs, batchSize)
  feeds,
  \* table feeds_to_webhooks(feed_id, webhook_id)
  feeds_to_webhooks,
  \* table last_ids(tag_key, last_image_id), as a map tag_key -> last_image_id
  last_ids,
  \* FeedManager.webhookCache, a map url -> webhook id
  webhookCache,
  \* table sqlite_sequence: the last AUTOINCREMENT id given in webhooks and in feeds
  sqlite_sequence,
  \* FeedManager.activeFeeds: the DiscordFeed instances, one per active name
  activeFeeds,
  \* the listeners of the EventBus in subscription order, each [topic, feed]
  listeners,
  \* DanbooruPoller.tagConfigs, a map tagKey -> TagConfig
  tagConfigs,
  \* DanbooruPoller.activeTagTimers, a map tagKey -> interval of the live timer
  activeTagTimers,
  \* the pollTag calls awaiting their axios.get
  polls,
  \* number the next pollTag call gets
  nextPid,
  \* the handleNewImage calls awaiting an axios.post or a backoff sleep
  deliveries,
  \* 429 answers and other webhook failures given so far
  n429, nPostErrors,
  \* the "Received new image" lines handleNewImage logged while the last poll published
  invoked,
  \* the "Failed to send webhook ... after 5 attempts" lines handleNewImage logged
  failureLog,
  \* the feed and item of every handleNewImage call that sent a POST
  delivered,
  \* what the last finished pollTag call did
  lastPoll,
  \* the answered webhook POSTs of the deliveries the last finished poll caused
  lastPosts,
  \* SpecKey: two tag lists and the keys getTagKey gave them
  tagsIn, keysOut,
  \* SpecList: the array makeReadableList is called with, as it was built and as it is
  \* now, and what the call returned
  readable,
  \* DedupeCache.cache, a map key -> expiry time, and the ttlMs the cache was built with
  cache, ttlMs,
  \* Date.now(), and the time the next run of the cleanup interval is due
  now, nextSweep,
  \* the last tryAdd call: its key, its time, its result and the entry it found
  lastClaim

vars == <<upstream, webhooks, feeds, feeds_to_webhooks, last_ids, webhookCache,
          sqlite_sequence, activeFeeds, listeners,
          tagConfigs, activeTagTimers, polls, nextPid, deliveries, n429,
          nPostErrors, invoked, failureLog, delivered, lastPoll, lastPosts, tagsIn, keysOut,
          readable, cache, ttlMs, now, nextSweep, lastClaim>>

\* the variables of the running program, as one record the operations transform
St ==
  [webhooks |-> webhooks, feeds |-> feeds, feeds_to_webhooks |-> feeds_to_webhooks,
   last_ids |-> last_ids, webhookCache |-> webhookCache, sqlite_sequence |-> sqlite_sequence,
   activeFeeds |-> activeFeeds, listeners |-> listeners,
   tagConfigs |-> tagConfigs, activeTagTimers |-> activeTagTimers,
   polls |-> polls, nextPid |-> nextPid, deliveries |-> deliveries, invoked |-> invoked,
   failureLog |-> failureLog]

\* the program's variables after an operation that produced m
SetSt(m) ==
  /\ webhooks' = m.webhooks
  /\ feeds' = m.feeds
  /\ feeds_to_webhooks' = m.feeds_to_webhooks
  /\ last_ids' = m.last_ids
  /\ webhookCache' = m.webhookCache
  /\ sqlite_sequence' = m.sqlite_sequence
  /\ activeFeeds' = m.activeFeeds
  /\ listeners' = m.listeners
  /\ tagConfigs' = m.tagConfigs
  /\ activeTagTimers' = m.activeTagTimers
  /\ polls' = m.polls
  /\ nextPid' = m.nextPid
  /\ deliveries' = m.deliveries
  /\ invoked' = m.invoked
  /\ failureLog' = m.failureLog

\* Map.delete
MapDelete(f, k) == [x \in DOMAIN f \ {k} |-> f[x]]

\* Map.set
MapSet(f, k, v) == (k :> v) @@ f

\* x ?? d
Coalesce(x, d) == IF x = Null THEN d ELSE x

RECURSIVE RowsById(_)
\* the rows of a query in rowid order
RowsById(rows) ==
  IF rows = {} THEN <<>>
  ELSE LET r == CHOOSE x \in rows : \A y \in rows : x.id <= y.id
       IN <<r>> \o RowsById(rows \ {r})

\* ------------------------------------------------- DanbooruPoller, cursor
\* getLastIdForTag: result?.last_image_id ?? 0
getLastIdForTag(m, tagKey) ==
  IF tagKey \in DOMAIN m.last_ids THEN m.last_ids[tagKey] ELSE 0

\* saveLastIdForTag: INSERT ... ON CONFLICT(tag_key) DO UPDATE
saveLastIdForTag(m, tagKey, id) ==
  [m EXCEPT !.last_ids = MapSet(m.last_ids, tagKey, id)]

\* ------------------------------------------- DanbooruPoller, configuration
\* addFeed: the configuration of the key becomes the one of this feed
addFeed(m, feedConfig) ==
  LET tagKey == getTagKey(feedConfig.tags)
      newInterval == Coalesce(feedConfig.pollingIntervalMs, DefaultPollingIntervalMs)
      batchSize == Coalesce(feedConfig.batchSize, DefaultBatchSize)
  IN [m EXCEPT !.tagConfigs =
        MapSet(m.tagConfigs, tagKey, [pollIntervalMs |-> newInterval, batchSize |-> batchSize])]

\* pollTag up to its await: look up the configuration, read the cursor, send the GET
pollTagBegin(m, tagKey) ==
  IF tagKey \notin DOMAIN m.tagConfigs
  THEN m
  ELSE [m EXCEPT
         !.polls = @ \cup {[pid |-> m.nextPid, key |-> tagKey,
                            lastId |-> getLastIdForTag(m, tagKey),
                            batchSize |-> m.tagConfigs[tagKey].batchSize]},
         !.nextPid = @ + 1]

\* mutant of startPollLoop: the timer is set without the immediate poll
startPollLoop_TimerOnly(m, tagKey, intervalMs) ==
  [m EXCEPT !.activeTagTimers = MapSet(m.activeTagTimers, tagKey, intervalMs)]

\* startPollLoop: an immediate poll, then setInterval
startPollLoop(m, tagKey, intervalMs) ==
  LET m1 == pollTagBegin(m, tagKey)
  IN [m1 EXCEPT !.activeTagTimers = MapSet(m1.activeTagTimers, tagKey, intervalMs)]

\* mutant of stopPollLoop: the polls of the key that await their answer are dropped
stopPollLoop_AbortsPolls(m, tagKey) ==
  IF tagKey \notin DOMAIN m.activeTagTimers THEN m
  ELSE [m EXCEPT !.activeTagTimers = MapDelete(m.activeTagTimers, tagKey),
                 !.polls = {p \in @ : p.key # tagKey}]

\* stopPollLoop: clearInterval and forget the timer
stopPollLoop(m, tagKey) ==
  IF tagKey \notin DOMAIN m.activeTagTimers THEN m
  ELSE [m EXCEPT !.activeTagTimers = MapDelete(m.activeTagTimers, tagKey)]

\* DanbooruPoller.startFeed
DanbooruPoller_startFeed(m, tagKey) ==
  IF tagKey \notin DOMAIN m.tagConfigs THEN [m |-> m, ret |-> FALSE]
  ELSE IF tagKey \in DOMAIN m.activeTagTimers THEN [m |-> m, ret |-> FALSE]
  ELSE [m |-> startPollLoop(m, tagKey, m.tagConfigs[tagKey].pollIntervalMs), ret |-> TRUE]

\* DanbooruPoller.stopFeed
DanbooruPoller_stopFeed(m, tagKey) ==
  IF tagKey \notin DOMAIN m.activeTagTimers THEN [m |-> m, ret |-> FALSE]
  ELSE [m |-> stopPollLoop(m, tagKey), ret |-> TRUE]

\* ------------------------------------------------------------ FeedManager
\* SELECT * FROM feeds WHERE name = ?
FeedRows(m, name) == {r \in m.feeds : r.name = name}

\* the webhooks joined to a feed row: SELECT w.name, w.url FROM webhooks w JOIN feeds_to_webhooks
JoinedWebhooks(m, feedId) ==
  RowsById({w \in m.webhooks :
              [feed_id |-> feedId, webhook_id |-> w.id] \in m.feeds_to_webhooks})

\* createResolvedFeedConfig
createResolvedFeedConfig(row, hooks) ==
  [name |-> row.name, tags |-> row.tags,
   webhookDestinations |-> [i \in 1..Len(hooks) |-> [name |-> hooks[i].name, url |-> hooks[i].url]],
   pollingIntervalMs |-> row.pollingIntervalMs, batchSize |-> row.batchSize]

\* getResolvedFeedConfigByName, for a name that has a row
getResolvedFeedConfigByName(m, name) ==
  LET row == CHOOSE r \in FeedRows(m, name) : TRUE
  IN createResolvedFeedConfig(row, JoinedWebhooks(m, row.id))

\* getAllFeedsFromDb
getAllFeedsFromDb(m) ==
  LET rows == RowsById(m.feeds)
  IN [i \in 1..Len(rows) |-> createResolvedFeedConfig(rows[i], JoinedWebhooks(m, rows[i].id))]

\* this.activeFeeds.has(name)
IsActive(m, name) == \E f \in m.activeFeeds : f.name = name

\* new DiscordFeed(eventBus, config): keeps the configuration and subscribes to its tag key
DiscordFeed(config) ==
  [name |-> config.name, tagKey |-> getTagKey(config.tags),
   webhookDestinations |-> config.webhookDestinations]

\* mutant of onNewImage: the listener is put before the others
onNewImage_Prepends(m, tagKey, feed) ==
  [m EXCEPT !.listeners = <<[topic |-> tagKey, feed |-> feed]>> \o @]

\* EventBus.onNewImage: EventEmitter.on appends the listener
onNewImage(m, tagKey, feed) ==
  [m EXCEPT !.listeners = Append(@, [topic |-> tagKey, feed |-> feed])]

\* DiscordFeed.unsubscribe: the listener of this instance is taken off the bus
unsubscribe(m, feed) ==
  [m EXCEPT !.listeners = SelectSeq(@, LAMBDA l : l.feed # feed)]

\* mutant of FeedManager.startFeed: a running feed is started once more
FeedManager_startFeed_Again(m, name) ==
  IF FeedRows(m, name) = {} THEN [m |-> m, ret |-> FALSE]
  ELSE
    LET config == getResolvedFeedConfigByName(m, name)
        tagKey == getTagKey(config.tags)
        started == startPollLoop(addFeed(m, config), tagKey,
                                 Coalesce(config.pollingIntervalMs, DefaultPollingIntervalMs))
        discordFeed == DiscordFeed(config)
    IN IF Len(config.webhookDestinations) = 0 THEN [m |-> m, ret |-> FALSE]
       ELSE [m |-> [onNewImage(started, discordFeed.tagKey, discordFeed)
                      EXCEPT !.activeFeeds = @ \cup {discordFeed}],
             ret |-> TRUE]

\* FeedManager.startFeed
FeedManager_startFeed(m, name) ==
  IF IsActive(m, name) THEN [m |-> m, ret |-> TRUE]
  ELSE IF FeedRows(m, name) = {} THEN [m |-> m, ret |-> FALSE]
  ELSE
    LET config == getResolvedFeedConfigByName(m, name)
        tagKey == getTagKey(config.tags)
        started == DanbooruPoller_startFeed(addFeed(m, config), tagKey)
        discordFeed == DiscordFeed(config)
    IN IF Len(config.webhookDestinations) = 0 THEN [m |-> m, ret |-> FALSE]
       ELSE IF ~started.ret THEN [m |-> started.m, ret |-> FALSE]
       ELSE [m |-> [onNewImage(started.m, discordFeed.tagKey, discordFeed)
                      EXCEPT !.activeFeeds = @ \cup {discordFeed}],
             ret |-> TRUE]

\* mutant of FeedManager.stopFeed: the timer of a key another stored feed has is kept
FeedManager_stopFeed_KeepsSharedTimer(m, name) ==
  IF ~IsActive(m, name) THEN [m |-> m, ret |-> FALSE]
  ELSE IF FeedRows(m, name) = {} THEN [m |-> m, ret |-> FALSE]
  ELSE
    LET config == getResolvedFeedConfigByName(m, name)
        tagKey == getTagKey(config.tags)
        shared == \E row \in m.feeds : row.name # name /\ getTagKey(row.tags) = tagKey
        stopped == IF shared THEN [m |-> m, ret |-> TRUE] ELSE DanbooruPoller_stopFeed(m, tagKey)
        feedInstance == CHOOSE f \in m.activeFeeds : f.name = name
    IN [m |-> [unsubscribe(stopped.m, feedInstance)
                 EXCEPT !.activeFeeds = @ \ {feedInstance}],
        ret |-> stopped.ret]

\* FeedManager.stopFeed
FeedManager_stopFeed(m, name) ==
  IF ~IsActive(m, name) THEN [m |-> m, ret |-> FALSE]
  ELSE IF FeedRows(m, name) = {} THEN [m |-> m, ret |-> FALSE]
  ELSE
    LET config == getResolvedFeedConfigByName(m, name)
        tagKey == getTagKey(config.tags)
        stopped == DanbooruPoller_stopFeed(m, tagKey)
        feedInstance == CHOOSE f \in m.activeFeeds : f.name = name
    IN [m |-> [unsubscribe(stopped.m, feedInstance)
                 EXCEPT !.activeFeeds = @ \ {feedInstance}],
        ret |-> stopped.ret]

RECURSIVE startEach(_, _)
\* the loop of startAllFeeds: poller.addFeed(feed); startFeed(feed.name)
startEach(m, configs) ==
  IF configs = <<>> THEN m
  ELSE startEach(FeedManager_startFeed(addFeed(m, Head(configs)), Head(configs).name).m,
                 Tail(configs))

\* FeedManager.startAllFeeds
startAllFeeds(m) == startEach(m, getAllFeedsFromDb(m))

\* ------------------------------------------------- FeedManager, the store
RECURSIVE cacheRows(_, _)
\* rows.forEach(row => this.webhookCache.set(row.url, row.id))
cacheRows(c, rows) ==
  IF rows = <<>> THEN c ELSE cacheRows(MapSet(c, Head(rows).url, Head(rows).id), Tail(rows))

\* initializeWebhookCache: every stored row is set in the cache, nothing is taken out of it
initializeWebhookCache(m) ==
  [m EXCEPT !.webhookCache = cacheRows(@, RowsById(m.webhooks))]

\* SELECT id FROM webhooks WHERE name = ?
WebhookRows(m, name) == {w \in m.webhooks : w.name = name}

\* getWebhookIdByName, for a name that has a row
getWebhookIdByName(m, name) == (CHOOSE w \in WebhookRows(m, name) : TRUE).id

\* mutant of FeedManager.deleteWebhook: the joins of the row stay
deleteWebhook_NoCascade(m, name) ==
  IF WebhookRows(m, name) = {} THEN [m |-> m, ret |-> FALSE]
  ELSE
    LET id == getWebhookIdByName(m, name)
    IN [m |-> initializeWebhookCache([m EXCEPT !.webhooks = {w \in @ : w.id # id}]),
        ret |-> TRUE]

\* FeedManager.deleteWebhook: the row goes, its joins go with it (ON DELETE CASCADE)
deleteWebhook(m, name) ==
  IF WebhookRows(m, name) = {} THEN [m |-> m, ret |-> FALSE]
  ELSE
    LET id == getWebhookIdByName(m, name)
        deleted == [m EXCEPT !.webhooks = {w \in @ : w.id # id},
                             !.feeds_to_webhooks = {j \in @ : j.webhook_id # id}]
    IN [m |-> initializeWebhookCache(deleted), ret |-> TRUE]

\* a second INSERT of the same (feed_id, webhook_id) breaks the PRIMARY KEY of the join table
HasDuplicate(names) == \E i, j \in 1..Len(names) : i # j /\ names[i] = names[j]

\* a field of a Partial<FeedConfig> is given
Has(newConfig, field) == field \in DOMAIN newConfig

\* the row of updateFeed's UPDATE feeds SET ...: a field is written when it is truthy
UpdatedRow(row, oldName, newConfig) ==
  [id |-> row.id,
   name |-> IF Has(newConfig, "name") /\ newConfig.name # "" /\ newConfig.name # oldName
            THEN newConfig.name ELSE row.name,
   tags |-> IF Has(newConfig, "tags") THEN newConfig.tags ELSE row.tags,
   pollingIntervalMs |-> IF Has(newConfig, "pollingIntervalMs") /\ newConfig.pollingIntervalMs # 0
                         THEN newConfig.pollingIntervalMs ELSE row.pollingIntervalMs,
   batchSize |-> IF Has(newConfig, "batchSize") /\ newConfig.batchSize # 0
                 THEN newConfig.batchSize ELSE row.batchSize]

\* FeedManager.updateFeed
updateFeed(m, oldName, newConfig) ==
  IF FeedRows(m, oldName) = {} THEN [m |-> m, threw |-> TRUE]
  ELSE
    LET existingFeedRow == CHOOSE r \in FeedRows(m, oldName) : TRUE
        feedId == existingFeedRow.id
        renamed == Has(newConfig, "name") /\ newConfig.name # "" /\ newConfig.name # oldName
        finalName == IF renamed THEN newConfig.name ELSE oldName
        updated == [m EXCEPT !.feeds =
                      (@ \ {existingFeedRow}) \cup {UpdatedRow(existingFeedRow, oldName, newConfig)}]
        names == IF Has(newConfig, "webhookNames") THEN newConfig.webhookNames ELSE <<>>
        joined == IF ~Has(newConfig, "webhookNames") THEN updated
                  ELSE [updated EXCEPT !.feeds_to_webhooks =
                          {j \in @ : j.feed_id # feedId} \cup
                          {[feed_id |-> feedId, webhook_id |-> getWebhookIdByName(updated, names[i])] :
                             i \in 1..Len(names)}]
        wasRunning == IsActive(joined, oldName)
        stopped == IF wasRunning THEN FeedManager_stopFeed(joined, oldName).m ELSE joined
        restarted == IF wasRunning THEN FeedManager_startFeed(stopped, finalName).m ELSE stopped
    IN IF renamed /\ FeedRows(m, newConfig.name) # {} THEN [m |-> m, threw |-> TRUE]
       ELSE IF \E i \in 1..Len(names) : WebhookRows(updated, names[i]) = {}
       THEN [m |-> updated, threw |-> TRUE]
       ELSE IF HasDuplicate(names) THEN [m |-> updated, threw |-> TRUE]
       ELSE [m |-> restarted, threw |-> FALSE]

\* FeedManager.getWebhookIdByUrl: the cache answers first, a row found is put in the cache
getWebhookIdByUrl(m, url) ==
  IF url \in DOMAIN m.webhookCache THEN [m |-> m, id |-> m.webhookCache[url]]
  ELSE IF \E w \in m.webhooks : w.url = url
  THEN LET row == CHOOSE w \in m.webhooks : w.url = url
       IN [m |-> [m EXCEPT !.webhookCache = MapSet(@, url, row.id)], id |-> row.id]
  ELSE [m |-> m, id |-> Null]

\* FeedManager.createWebhook
createWebhook(m, webhook) ==
  LET existingWebhook == getWebhookIdByUrl(m, webhook.url)
      id == m.sqlite_sequence.webhooks + 1
      inserted == [m EXCEPT !.webhooks = @ \cup {[id |-> id, name |-> webhook.name, url |-> webhook.url]},
                            !.sqlite_sequence.webhooks = id]
  IN IF existingWebhook.id # Null THEN [m |-> existingWebhook.m, threw |-> TRUE]
     ELSE IF WebhookRows(m, webhook.name) # {} THEN [m |-> m, threw |-> TRUE]
     ELSE [m |-> initializeWebhookCache(inserted), threw |-> FALSE]

\* mutant of FeedManager.updateWebhook: the new name is not looked up
updateWebhook_NoNameCheck(m, name, newWebhook) ==
  IF WebhookRows(m, name) = {} THEN [m |-> m, threw |-> TRUE]
  ELSE
    LET existingWebhook == CHOOSE w \in WebhookRows(m, name) : TRUE
        written == [m EXCEPT !.webhooks = (@ \ {existingWebhook}) \cup
                      {[id |-> existingWebhook.id, name |-> newWebhook.name, url |-> newWebhook.url]}]
    IN IF \E w \in m.webhooks : w.url = newWebhook.url /\ w.id # existingWebhook.id
       THEN [m |-> m, threw |-> TRUE]
       ELSE [m |-> initializeWebhookCache(written), threw |-> FALSE]

\* FeedManager.updateWebhook
updateWebhook(m, name, newWebhook) ==
  IF WebhookRows(m, name) = {} THEN [m |-> m, threw |-> TRUE]
  ELSE
    LET existingWebhook == CHOOSE w \in WebhookRows(m, name) : TRUE
        written == [m EXCEPT !.webhooks = (@ \ {existingWebhook}) \cup
                      {[id |-> existingWebhook.id, name |-> newWebhook.name, url |-> newWebhook.url]}]
    IN IF \E w \in m.webhooks : w.url = newWebhook.url /\ w.id # existingWebhook.id
       THEN [m |-> m, threw |-> TRUE]
       ELSE IF \E w \in m.webhooks : w.name = newWebhook.name /\ w.id # existingWebhook.id
       THEN [m |-> m, threw |-> TRUE]
       ELSE [m |-> initializeWebhookCache(written), threw |-> FALSE]

\* mutant of FeedManager.createFeed: the feed row is inserted before the names are resolved
createFeed_RowFirst(m, config) ==
  LET names == config.webhookNames
      feedId == m.sqlite_sequence.feeds + 1
      row == [m EXCEPT
                !.feeds = @ \cup {[id |-> feedId, name |-> config.name, tags |-> config.tags,
                                   pollingIntervalMs |-> config.pollingIntervalMs,
                                   batchSize |-> config.batchSize]},
                !.sqlite_sequence.feeds = feedId]
      known == {i \in 1..Len(names) : WebhookRows(m, names[i]) # {}}
  IN IF FeedRows(m, config.name) # {} THEN [m |-> m, threw |-> TRUE]
     ELSE IF known # 1..Len(names) THEN [m |-> row, threw |-> TRUE]
     ELSE IF HasDuplicate(names) THEN [m |-> m, threw |-> TRUE]
     ELSE [m |-> [row EXCEPT !.feeds_to_webhooks = @ \cup
                    {[feed_id |-> feedId, webhook_id |-> getWebhookIdByName(m, names[i])] :
                       i \in 1..Len(names)}],
           threw |-> FALSE]

\* FeedManager.createFeed
createFeed(m, config) ==
  LET names == config.webhookNames
      feedId == m.sqlite_sequence.feeds + 1
      inserted == [m EXCEPT
                     !.feeds = @ \cup {[id |-> feedId, name |-> config.name, tags |-> config.tags,
                                        pollingIntervalMs |-> config.pollingIntervalMs,
                                        batchSize |-> config.batchSize]},
                     !.feeds_to_webhooks = @ \cup
                        {[feed_id |-> feedId, webhook_id |-> getWebhookIdByName(m, names[i])] :
                           i \in 1..Len(names)},
                     !.sqlite_sequence.feeds = feedId]
  IN IF FeedRows(m, config.name) # {} THEN [m |-> m, threw |-> TRUE]
     ELSE IF \E i \in 1..Len(names) : WebhookRows(m, names[i]) = {} THEN [m |-> m, threw |-> TRUE]
     ELSE IF HasDuplicate(names) THEN [m |-> m, threw |-> TRUE]
     ELSE [m |-> inserted, threw |-> FALSE]

\* FeedManager.deleteFeed: the feed is stopped, then its row goes and its joins with it
deleteFeed(m, name) ==
  IF FeedRows(m, name) = {} THEN [m |-> m, ret |-> FALSE]
  ELSE
    LET feedRow == CHOOSE r \in FeedRows(m, name) : TRUE
        stopped == FeedManager_stopFeed(m, name).m
    IN [m |-> [stopped EXCEPT !.feeds = {r \in @ : r.id # feedRow.id},
                              !.feeds_to_webhooks = {j \in @ : j.feed_id # feedRow.id}],
        ret |-> TRUE]

\* FeedManager.getFeedLastId
getFeedLastId(m, name) ==
  IF FeedRows(m, name) = {} THEN -1
  ELSE getLastIdForTag(m, getTagKey((CHOOSE r \in FeedRows(m, name) : TRUE).tags))

\* FeedManager.updateFeedLastId
updateFeedLastId(m, name, newLastId) ==
  IF FeedRows(m, name) = {} THEN [m |-> m, ret |-> FALSE]
  ELSE [m |-> saveLastIdForTag(m, getTagKey((CHOOSE r \in FeedRows(m, name) : TRUE).tags), newLastId),
        ret |-> TRUE]

\* ------------------------------------------- DiscordFeed.handleNewImage
\* the file extensions createDiscordWebhookPayload has a branch for
KnownFileExts == {"jpg", "png", "webp", "gif", "sfw", "mp4", "webm", "zip"}

\* createDiscordWebhookPayload throws: its last branch reads the undeclared variable `name`
PayloadThrows(image) == image.fileExt \notin KnownFileExts

\* handleNewImage up to its first await: the payload is built, the POST to the first
\* destination is sent; a throw rejects the promise of the call, which nobody awaits
handleNewImage(m, pid, feed, image) ==
  LET m1 == [m EXCEPT !.invoked = Append(@, [feed |-> feed.name, item |-> image.id])]
  IN IF PayloadThrows(image) THEN m1
     ELSE IF Len(feed.webhookDestinations) = 0 THEN m1
     ELSE [m1 EXCEPT !.deliveries = @ \cup
             {[pid |-> pid, feed |-> feed.name, key |-> feed.tagKey,
               dests |-> feed.webhookDestinations,
               item |-> image.id, idx |-> 1, attempts |-> 1, st |-> "posting",
               retryAfter |-> 0, delayMs |-> 0]}]

\* mutant of nextDestination: the call returns after the first destination it is done with
nextDestination_Returns(m, d) == [m EXCEPT !.deliveries = @ \ {d}]

\* after the while loop, however it was left:
\* if (attempts >= maxAttempts) console.error("... after 5 attempts")
afterAttempts(m, d) ==
  IF d.attempts >= maxAttempts
  THEN [m EXCEPT !.failureLog = @ \cup {[pid |-> d.pid, feed |-> d.feed, item |-> d.item,
                                          url |-> d.dests[d.idx].url]}]
  ELSE m

\* the for loop of handleNewImage moves to the next destination, or the call returns
nextDestination(m, d) ==
  IF d.idx < Len(d.dests)
  THEN [m EXCEPT !.deliveries =
          (@ \ {d}) \cup {[d EXCEPT !.idx = @ + 1, !.attempts = 1, !.st = "posting",
                                     !.retryAfter = 0, !.delayMs = 0]}]
  ELSE [m EXCEPT !.deliveries = @ \ {d}]

\* axios.post resolved: break
postSucceeded(m, d) == nextDestination(afterAttempts(m, d), d)

\* mutant of postRateLimited: the delay is the jitter alone
postRateLimited_JitterOnly(m, d, retry_after, random) ==
  [m EXCEPT !.deliveries =
     (@ \ {d}) \cup {[d EXCEPT !.st = "sleeping", !.retryAfter = retry_after,
                                !.delayMs = random * d.attempts]}]

\* axios.post rejected with status 429: setTimeout for (retry_after + Math.random() *
\* attempts) * 1000 ms; random is Math.random() in thousandths
postRateLimited(m, d, retry_after, random) ==
  [m EXCEPT !.deliveries =
     (@ \ {d}) \cup {[d EXCEPT !.st = "sleeping", !.retryAfter = retry_after,
                                !.delayMs = retry_after * 1000 + random * d.attempts]}]

\* mutant of sleepOver: the loop has no attempt budget
sleepOver_NoBudget(m, d) ==
  [m EXCEPT !.deliveries =
     (@ \ {d}) \cup {[d EXCEPT !.attempts = @ + 1, !.st = "posting",
                                !.retryAfter = 0, !.delayMs = 0]}]

\* the backoff sleep is over: continue, and the loop test attempts < 5 decides
sleepOver(m, d) ==
  IF d.attempts < maxAttempts
  THEN [m EXCEPT !.deliveries =
          (@ \ {d}) \cup {[d EXCEPT !.attempts = @ + 1, !.st = "posting",
                                     !.retryAfter = 0, !.delayMs = 0]}]
  ELSE nextDestination(afterAttempts(m, d), d)

\* mutant of postFailed: a failed delivery stops the poll loop of its tag key
postFailed_StopsPolling(m, d) ==
  LET m1 == [m EXCEPT !.deliveries = @ \ {d}]
  IN [m1 EXCEPT !.activeTagTimers = [x \in DOMAIN @ \ {d.key} |-> @[x]]]

\* axios.post rejected otherwise: break
postFailed(m, d) == nextDestination(afterAttempts(m, d), d)

\* ------------------------------------------------------------- EventBus
RECURSIVE emitTo(_, _, _, _)
\* mutant of emitTo: a listener that fails ends the emit
emitTo_StopsAtFailure(m, pid, ls, image) ==
  IF ls = <<>> THEN m
  ELSE IF PayloadThrows(image) THEN handleNewImage(m, pid, Head(ls).feed, image)
  ELSE emitTo(handleNewImage(m, pid, Head(ls).feed, image), pid, Tail(ls), image)

\* EventEmitter.emit calls the listeners one after the other
emitTo(m, pid, ls, image) ==
  IF ls = <<>> THEN m
  ELSE emitTo(handleNewImage(m, pid, Head(ls).feed, image), pid, Tail(ls), image)

\* the listeners of a topic at this moment, in subscription order
ListenersOf(m, tagKey) == SelectSeq(m.listeners, LAMBDA l : l.topic = tagKey)

\* EventBus.emitNewImage
emitNewImage(m, pid, tagKey, image) == emitTo(m, pid, ListenersOf(m, tagKey), image)

\* ---------------------------------------------------------- DedupeCache
\* const oneDayMs = 1000 * 60 * 60 * 24, the default ttlMs
oneDayMs == 1000 * 60 * 60 * 24

\* setInterval(() => this.cleanup(), 60000)
cleanupIntervalMs == 60000

\* DedupeCache.tryAdd at time t
tryAdd(c, ttl, t, key) ==
  IF key \in DOMAIN c THEN [cache |-> c, ret |-> FALSE]
  ELSE [cache |-> MapSet(c, key, t + ttl), ret |-> TRUE]

\* DedupeCache.cleanup at time t
cleanup(c, t) == [key \in {k \in DOMAIN c : ~(c[k] < t)} |-> c[key]]

\* -------------------------------------------- DanbooruPoller.pollTag, resumed
\* response.data.filter(img => img.id > lastId)
NewPosts(data, lastId) == SelectSeq(data, LAMBDA img : img.id > lastId)

RECURSIVE InsertPost(_, _)
\* one step of the stable sort with (a, b) => a.id - b.id
InsertPost(s, x) ==
  IF s = <<>> THEN <<x>>
  ELSE IF Head(s).id - x.id <= 0 THEN <<Head(s)>> \o InsertPost(Tail(s), x)
  ELSE <<x>> \o s

RECURSIVE SortPosts(_)
\* mutant of SortPosts: the answer is kept in the order it came
SortPosts_Unsorted(s) == s

\* .sort((a, b) => a.id - b.id)
SortPosts(s) ==
  IF s = <<>> THEN <<>>
  ELSE InsertPost(SortPosts(SubSeq(s, 1, Len(s) - 1)), s[Len(s)])

\* checkFieldsAreDefined in parseDanbooruPost throws on a record that lacks a required field
ParseThrows(post) == ~post.ok

\* parseDanbooruPost, of which the model keeps the id and the file extension
parseDanbooruPost(post) == [id |-> post.id, fileExt |-> post.file_ext]

\* mutant of NextMaxId: the comparison is reversed
NextMaxId_Reversed(maxId, post) == IF post.id < maxId THEN post.id ELSE maxId

\* let maxId = lastId ... if (post.id > maxId) maxId = post.id
NextMaxId(maxId, post) == IF post.id > maxId THEN post.id ELSE maxId

RECURSIVE publishLoop(_, _, _, _)
\* for (const post of rawPosts): parse, emit, track maxId; a throw leaves the loop
publishLoop(acc, pid, tagKey, posts) ==
  IF posts = <<>> THEN acc
  ELSE IF ParseThrows(Head(posts)) THEN [acc EXCEPT !.threw = TRUE]
  ELSE publishLoop(
         [m |-> emitNewImage(acc.m, pid, tagKey, parseDanbooruPost(Head(posts))),
          maxId |-> NextMaxId(acc.maxId, Head(posts)),
          published |-> Append(acc.published, Head(posts).id),
          threw |-> FALSE],
         pid, tagKey, Tail(posts))

\* pollTag after the GET resolved with data: publish the new posts, then save the cursor
pollTagResolved(m, p, data) ==
  LET rawPosts == SortPosts(NewPosts(data, p.lastId))
      m0 == [m EXCEPT !.polls = @ \ {p}]
      done == publishLoop([m |-> m0, maxId |-> p.lastId, published |-> <<>>, threw |-> FALSE],
                          p.pid, p.key, rawPosts)
  IN IF Len(rawPosts) = 0 THEN [m |-> m0, published |-> <<>>, outcome |-> "no new images"]
     ELSE IF done.threw THEN [m |-> done.m, published |-> done.published, outcome |-> "parse failed"]
     ELSE [m |-> saveLastIdForTag(done.m, p.key, done.maxId),
           published |-> done.published, outcome |-> "saved"]

\* mutant of pollTagRejected: the catch block moves the cursor past the failed fetch
pollTagRejected_SkipsAhead(m, p) ==
  [m |-> [m EXCEPT !.polls = @ \ {p}, !.last_ids = (p.key :> (p.lastId + 1)) @@ @],
   published |-> <<>>, outcome |-> "fetch failed"]

\* pollTag after the GET rejected: the catch block logs
pollTagRejected(m, p) ==
  [m |-> [m EXCEPT !.polls = @ \ {p}], published |-> <<>>, outcome |-> "fetch failed"]

\* ------------------------------------------------------------------ inputs
\* the feed names the administrative surface is called with
CallNames == {"f1", "f2", "f3", "f9"}

\* the feed names the registry is called with once feeds can be renamed
RegistryNames == CallNames \cup {"f4"}

\* the webhook names the registry is called with
WebhookNames == {"w1", "w2", "w9"}

\* the WebhookDestination bodies createWebhook and updateWebhook are called with
WebhookInputs == [name : {"w1", "w3"}, url : {"u1", "u3"}]

\* the FeedConfig bodies createFeed is called with, the route's defaults filled in
CreateInputs ==
  [name : {"f1", "f5"}, tags : {<< <<"a">> >>},
   webhookNames : {<<>>, <<"w1">>, <<"w1", "w9">>},
   pollingIntervalMs : {60000}, batchSize : {3}]

\* the Partial<FeedConfig> bodies updateFeed is called with
UpdateInputs ==
  {[name |-> "f4"], [name |-> "f2"], [tags |-> << <<"b">> >>],
   [name |-> "f4", webhookNames |-> <<"w9">>]}

\* the Partial<FeedConfig> bodies updateFeed is called with while no feed runs
StoreUpdateInputs ==
  {[name |-> "f4"], [name |-> "f2"], [webhookNames |-> <<"w2">>],
   [name |-> "f4", webhookNames |-> <<"w9">>]}

\* what a post can be: complete with a file type the dispatcher knows, complete with one
\* it does not know, or lacking a required field
PostKinds ==
  {[ok |-> TRUE, file_ext |-> "jpg"], [ok |-> TRUE, file_ext |-> "avif"],
   [ok |-> FALSE, file_ext |-> "jpg"]}

\* the record the upstream returns for a post
RawPost(id) == [id |-> id, ok |-> upstream[id].ok, file_ext |-> upstream[id].file_ext]

\* the answers to GET /posts.json with limit = batchSize: records of distinct posts, any order
Responses(batchSize) ==
  UNION {{[i \in 1..n |-> RawPost(s[i])] :
            s \in {t \in [1..n -> 1..MaxId] : \A i, j \in 1..n : i # j => t[i] # t[j]}} :
           n \in 0..(IF batchSize < MaxId THEN batchSize ELSE MaxId)}

\* the keys tryAdd is called with
ClaimKeys == {"k1", "k2"}

\* the ttlMs a DedupeCache is built with in SpecDedupe
TtlChoices == {30000, 60000}

\* the moments at which something happens in SpecDedupe
ClockTimes == {h * 30000 + e : h \in 0..MaxHalfMinutes, e \in {0, 1}}

\* error.response.data.retry_after of a 429 answer, in seconds
RetryAfters == {1, 2}

\* Math.random(), in thousandths: a number in [0, 1)
RandomMillis == {0, 999}

\* ------------------------------------------------------------ initial state
\* the rows the store holds when the process starts
InitWebhooks ==
  {[id |-> 1, name |-> "w1", url |-> "u1"], [id |-> 2, name |-> "w2", url |-> "u2"]}

InitFeeds ==
  {[id |-> 1, name |-> "f1", tags |-> << <<"a">>, <<"b">> >>, pollingIntervalMs |-> 2000, batchSize |-> 3],
   [id |-> 2, name |-> "f2", tags |-> << <<"b">>, <<"a">> >>, pollingIntervalMs |-> 1000, batchSize |-> 2],
   [id |-> 3, name |-> "f3", tags |-> << <<"b">> >>, pollingIntervalMs |-> Null, batchSize |-> Null]}

InitJoins ==
  {[feed_id |-> 1, webhook_id |-> 1], [feed_id |-> 1, webhook_id |-> 2],
   [feed_id |-> 2, webhook_id |-> 2]}

\* an empty Map
EmptyMap == [x \in {} |-> 0]

\* makeReadableList is not called
NoList == [arg |-> <<>>, list |-> <<>>, ret |-> <<>>, called |-> FALSE]

\* no tryAdd call yet
NoClaim == [key |-> "", at |-> 0, ret |-> FALSE, found |-> Null]

NoPoll ==
  [pid |-> 0, key |-> <<>>, lastId |-> 0, data |-> <<>>, published |-> <<>>,
   outcome |-> "none", before |-> 0, after |-> 0, subscribers |-> <<>>]

\* the engine right after construction and init(), nothing started yet
InitEngine ==
  /\ webhooks = InitWebhooks
  /\ feeds = InitFeeds
  /\ feeds_to_webhooks = InitJoins
  /\ last_ids = EmptyMap
  /\ webhookCache = EmptyMap
  /\ sqlite_sequence = [webhooks |-> Cardinality(InitWebhooks), feeds |-> Cardinality(InitFeeds)]
  /\ activeFeeds = {}
  /\ listeners = <<>>
  /\ tagConfigs = EmptyMap
  /\ activeTagTimers = EmptyMap
  /\ polls = {}
  /\ nextPid = 1
  /\ deliveries = {}
  /\ n429 = 0
  /\ nPostErrors = 0
  /\ invoked = <<>>
  /\ failureLog = {}
  /\ delivered = {}
  /\ lastPoll = NoPoll
  /\ lastPosts = {}
  /\ cache = EmptyMap
  /\ now = 0
  /\ nextSweep = cleanupIntervalMs
  /\ lastClaim = NoClaim

Init ==
  /\ InitEngine
  /\ ttlMs = oneDayMs
  /\ upstream \in [1..MaxId -> PostKinds]
  /\ tagsIn = << <<>>, <<>> >>
  /\ readable = NoList
  /\ keysOut = <<>>

engineVars == <<webhooks, feeds, feeds_to_webhooks, last_ids, webhookCache, sqlite_sequence,
                activeFeeds, listeners,
                tagConfigs, activeTagTimers, polls, nextPid, deliveries, invoked,
                failureLog>>
engineHistory == <<n429, nPostErrors, delivered, lastPoll, lastPosts>>
inputVars == <<upstream, tagsIn, keysOut, readable>>
dedupeVars == <<cache, ttlMs, now, nextSweep, lastClaim>>

\* ----------------------------------------------------------------- actions
\* startFeed(name), while the behaviour has begun at most budget polls
StartFeedWithin(name, budget) ==
  LET r == FeedManager_startFeed(St, name)
  IN /\ r.m.nextPid <= budget + 1
     /\ SetSt(r.m)
     /\ UNCHANGED <<engineHistory, inputVars, dedupeVars>>

\* GET /api/feeds/:name/start
StartFeed(name) == StartFeedWithin(name, MaxPolls)

\* GET /api/feeds/:name/start, in a behaviour with restarts
StartFeedShared(name) == StartFeedWithin(name, MaxPolls + MaxRestarts)

\* GET /api/feeds/:name/stop
StopFeed(name) ==
  /\ SetSt(FeedManager_stopFeed(St, name).m)
  /\ UNCHANGED <<engineHistory, inputVars, dedupeVars>>

\* the process has started nothing yet
Fresh == activeFeeds = {} /\ DOMAIN tagConfigs = {} /\ nextPid = 1

\* startAllFeeds, called once when the process starts
StartAllFeeds ==
  /\ Fresh
  /\ startAllFeeds(St).nextPid <= MaxPolls + 1
  /\ SetSt(startAllFeeds(St))
  /\ UNCHANGED <<engineHistory, inputVars, dedupeVars>>

\* the setInterval callback of a tag key runs
TimerFire(tagKey) ==
  /\ tagKey \in DOMAIN activeTagTimers
  /\ nextPid <= MaxPolls
  /\ SetSt(pollTagBegin(St, tagKey))
  /\ UNCHANGED <<engineHistory, inputVars, dedupeVars>>

\* what a finished poll leaves in the history
PollDone(p, data, r) ==
  /\ SetSt(r.m)
  /\ lastPoll' = [pid |-> p.pid, key |-> p.key, lastId |-> p.lastId, data |-> data,
                  published |-> r.published, outcome |-> r.outcome,
                  before |-> getLastIdForTag(St, p.key),
                  after |-> getLastIdForTag(r.m, p.key),
                  subscribers |-> [i \in 1..Len(ListenersOf(St, p.key)) |->
                                     ListenersOf(St, p.key)[i].feed]]
  /\ lastPosts' = {}
  /\ delivered' = delivered \cup
                    {[feed |-> d.feed, item |-> d.item] : d \in r.m.deliveries \ deliveries}
  /\ UNCHANGED <<n429, nPostErrors, inputVars, dedupeVars>>

\* the GET of a poll resolves with data
PollResponse(p, data) ==
  PollDone(p, data, pollTagResolved([St EXCEPT !.invoked = <<>>], p, data))

\* the GET of a poll rejects (network error, HTTP error status)
PollFail(p) == PollDone(p, <<>>, pollTagRejected([St EXCEPT !.invoked = <<>>], p))

\* what an answered POST leaves in the history
Posted(d, outcome) ==
  lastPosts' = IF d.pid # lastPoll.pid THEN lastPosts
               ELSE lastPosts \cup {[feed |-> d.feed, url |-> d.dests[d.idx].url,
                                     item |-> d.item, attempt |-> d.attempts,
                                     outcome |-> outcome]}

\* the webhook accepts a POST
PostOk(d) ==
  /\ d.st = "posting"
  /\ SetSt(postSucceeded(St, d))
  /\ Posted(d, "ok")
  /\ UNCHANGED <<n429, nPostErrors, delivered, lastPoll, inputVars, dedupeVars>>

\* the webhook answers 429 with a retry_after, if 429 answers are left to give
RateLimited(d, budget) ==
  /\ d.st = "posting"
  /\ n429 < budget
  /\ n429' = n429 + 1
  /\ \E retry_after \in RetryAfters : \E random \in RandomMillis :
       SetSt(postRateLimited(St, d, retry_after, random))
  /\ Posted(d, "429")
  /\ UNCHANGED <<nPostErrors, delivered, lastPoll, inputVars, dedupeVars>>

\* the webhook answers 429, a few times in one behaviour
Post429(d) == RateLimited(d, Max429)

\* the webhook answers 429 again and again
Post429Storm(d) == RateLimited(d, MaxStorm429)

\* the POST fails otherwise
PostErr(d) ==
  /\ d.st = "posting"
  /\ nPostErrors < MaxPostErrors
  /\ nPostErrors' = nPostErrors + 1
  /\ SetSt(postFailed(St, d))
  /\ Posted(d, "error")
  /\ UNCHANGED <<n429, delivered, lastPoll, inputVars, dedupeVars>>

\* the setTimeout of the backoff fires
SleepDone(d) ==
  /\ d.st = "sleeping"
  /\ SetSt(sleepOver(St, d))
  /\ UNCHANGED <<engineHistory, inputVars, dedupeVars>>

\* feeds are started and stopped while their tag keys are polled
Next ==
  \/ \E name \in CallNames : StartFeed(name)
  \/ \E name \in CallNames : StopFeed(name)
  \/ StartAllFeeds
  \/ \E tagKey \in DOMAIN activeTagTimers : TimerFire(tagKey)
  \/ \E p \in polls : \E data \in Responses(p.batchSize) : PollResponse(p, data)
  \/ \E p \in polls : PollFail(p)

Spec == Init /\ [][Next]_vars

\* the feeds of the store are started once, polled, and their items delivered
NextDelivery ==
  \/ StartAllFeeds
  \/ \E tagKey \in DOMAIN activeTagTimers : TimerFire(tagKey)
  \/ \E p \in polls : \E data \in Responses(p.batchSize) : PollResponse(p, data)
  \/ \E p \in polls : PollFail(p)
  \/ \E d \in deliveries : PostOk(d)
  \/ \E d \in deliveries : Post429(d)
  \/ \E d \in deliveries : PostErr(d)
  \/ \E d \in deliveries : SleepDone(d)

SpecDelivery == Init /\ [][NextDelivery]_vars

\* ------------------------- SpecRetry: one poll, its items and a stubborn webhook
InitRetry ==
  /\ InitEngine
  /\ ttlMs = oneDayMs
  /\ upstream = [id \in 1..MaxId |-> [ok |-> TRUE, file_ext |-> "jpg"]]
  /\ tagsIn = << <<>>, <<>> >>
  /\ readable = NoList
  /\ keysOut = <<>>

\* an axios.post of a delivery is answered
PostAnswered == \E d \in deliveries : PostOk(d) \/ Post429Storm(d) \/ PostErr(d)

\* a backoff sleep of a delivery ends
SleepEnds == \E d \in deliveries : SleepDone(d)

\* the feeds are started, the first poll is answered with at most one record, and the
\* webhooks answer the POSTs of its item
NextRetry ==
  \/ StartAllFeeds
  \/ \E p \in polls : \E data \in Responses(1) : PollResponse(p, data)
  \/ \E d \in deliveries : PostOk(d)
  \/ \E d \in deliveries : Post429Storm(d)
  \/ \E d \in deliveries : PostErr(d)
  \/ \E d \in deliveries : SleepDone(d)

SpecRetry == InitRetry /\ [][NextRetry]_vars

\* every POST is answered and every timer fires
SpecRetryFair == SpecRetry /\ WF_vars(PostAnswered) /\ WF_vars(SleepEnds)

\* ------------------ SpecBus: dispatchers and poll loops wired up by hand
\* nothing is wired up yet; every upstream record is well formed
InitBus ==
  /\ InitEngine
  /\ ttlMs = oneDayMs
  /\ upstream \in [1..MaxId -> {k \in PostKinds : k.ok}]
  /\ tagsIn = << <<>>, <<>> >>
  /\ readable = NoList
  /\ keysOut = <<>>

\* new DiscordFeed(eventBus, feedConfig), for the configuration of a stored feed
NewDiscordFeed(name) ==
  /\ FeedRows(St, name) # {}
  /\ Len(listeners) < MaxListeners
  /\ LET feed == DiscordFeed(getResolvedFeedConfigByName(St, name))
     IN SetSt(onNewImage(St, feed.tagKey, feed))
  /\ UNCHANGED <<engineHistory, inputVars, dedupeVars>>

\* poller.addFeed(feedConfig) and poller.startFeed(tagKey), for the configuration of a
\* stored feed
PollerStart(name) ==
  /\ FeedRows(St, name) # {}
  /\ nextPid <= MaxPolls
  /\ LET config == getResolvedFeedConfigByName(St, name)
     IN SetSt(DanbooruPoller_startFeed(addFeed(St, config), getTagKey(config.tags)).m)
  /\ UNCHANGED <<engineHistory, inputVars, dedupeVars>>

NextBus ==
  \/ \E name \in CallNames : NewDiscordFeed(name)
  \/ \E name \in CallNames : PollerStart(name)
  \/ \E tagKey \in DOMAIN activeTagTimers : TimerFire(tagKey)
  \/ \E p \in polls : \E data \in Responses(p.batchSize) : PollResponse(p, data)

SpecBus == InitBus /\ [][NextBus]_vars

\* DELETE /api/webhooks/:name
DeleteWebhook(name) ==
  /\ SetSt(deleteWebhook(St, name).m)
  /\ UNCHANGED <<engineHistory, inputVars, dedupeVars>>

\* updateFeed(oldName, newConfig), while the behaviour has begun at most budget polls
UpdateFeedWithin(oldName, newConfig, budget) ==
  LET r == updateFeed(St, oldName, newConfig)
  IN /\ r.m.nextPid <= budget + 1
     /\ SetSt(r.m)
     /\ UNCHANGED <<engineHistory, inputVars, dedupeVars>>

\* PUT /api/feeds/:name
UpdateFeed(oldName, newConfig) == UpdateFeedWithin(oldName, newConfig, MaxPolls)

\* PUT /api/feeds/:name, in a behaviour with restarts
UpdateFeedShared(oldName, newConfig) ==
  UpdateFeedWithin(oldName, newConfig, MaxPolls + MaxRestarts)

\* the store as it starts, every upstream post well-formed
InitRegistry ==
  /\ InitEngine
  /\ ttlMs = oneDayMs
  /\ upstream = [id \in 1..MaxId |-> [ok |-> TRUE, file_ext |-> "jpg"]]
  /\ tagsIn = << <<>>, <<>> >>
  /\ readable = NoList
  /\ keysOut = <<>>

\* feeds are started, stopped and updated and webhooks deleted; the GETs stay unanswered
NextRegistry ==
  \/ \E name \in RegistryNames : StartFeed(name)
  \/ \E name \in RegistryNames : StopFeed(name)
  \/ \E oldName \in RegistryNames : \E newConfig \in UpdateInputs : UpdateFeed(oldName, newConfig)
  \/ \E name \in WebhookNames : DeleteWebhook(name)

SpecRegistry == InitRegistry /\ [][NextRegistry]_vars

\* ------------------ SpecShare: two feeds are moved onto one tag key while they run
\* the feeds SpecShare starts, stops and updates
ShareNames == {"f1", "f2"}

\* the bodies of PUT /api/feeds/:name in SpecShare
ShareInputs == {[tags |-> << <<"b">> >>]}

NextShare ==
  \/ \E name \in ShareNames : StartFeedShared(name)
  \/ \E name \in ShareNames : StopFeed(name)
  \/ \E oldName \in ShareNames : \E newConfig \in ShareInputs :
       UpdateFeedShared(oldName, newConfig)

SpecShare == InitRegistry /\ [][NextShare]_vars

\* POST /api/webhooks
CreateWebhook(webhook) ==
  /\ sqlite_sequence.webhooks < Cardinality(InitWebhooks) + MaxNewRows
  /\ SetSt(createWebhook(St, webhook).m)
  /\ UNCHANGED <<engineHistory, inputVars, dedupeVars>>

\* PUT /api/webhooks/:name
UpdateWebhook(name, newWebhook) ==
  /\ SetSt(updateWebhook(St, name, newWebhook).m)
  /\ UNCHANGED <<engineHistory, inputVars, dedupeVars>>

\* POST /api/feeds
CreateFeed(config) ==
  /\ sqlite_sequence.feeds < Cardinality(InitFeeds) + MaxNewRows
  /\ SetSt(createFeed(St, config).m)
  /\ UNCHANGED <<engineHistory, inputVars, dedupeVars>>

\* DELETE /api/feeds/:name
DeleteFeed(name) ==
  /\ SetSt(deleteFeed(St, name).m)
  /\ UNCHANGED <<engineHistory, inputVars, dedupeVars>>

\* webhooks and feeds are created, updated and deleted while no feed runs
NextStore ==
  \/ \E webhook \in WebhookInputs : CreateWebhook(webhook)
  \/ \E name \in WebhookNames : \E newWebhook \in WebhookInputs : UpdateWebhook(name, newWebhook)
  \/ \E name \in WebhookNames : DeleteWebhook(name)
  \/ \E config \in CreateInputs : CreateFeed(config)
  \/ \E oldName \in RegistryNames : \E newConfig \in StoreUpdateInputs : UpdateFeed(oldName, newConfig)
  \/ \E name \in RegistryNames : DeleteFeed(name)

SpecStore == InitRegistry /\ [][NextStore]_vars

\* feeds are started and stopped while polls and POSTs are under way
NextStop ==
  \/ \E name \in CallNames : StartFeed(name)
  \/ \E name \in CallNames : StopFeed(name)
  \/ \E tagKey \in DOMAIN activeTagTimers : TimerFire(tagKey)
  \/ \E p \in polls : \E data \in Responses(1) : PollResponse(p, data)
  \/ \E d \in deliveries : PostOk(d)

SpecStop == InitRetry /\ [][NextStop]_vars

\* ------------------------------------------------- SpecKey: getTagKey alone
TagStrings == UNION {[1..n -> Chars] : n \in 1..MaxTagLen}

TagLists == UNION {[1..n -> TagStrings] : n \in 0..MaxTags}

InitKey ==
  /\ InitEngine
  /\ ttlMs = oneDayMs
  /\ upstream = [id \in 1..MaxId |-> [ok |-> TRUE, file_ext |-> "jpg"]]
  /\ tagsIn \in TagLists \X TagLists
  /\ readable = NoList
  /\ keysOut = <<>>

\* getTagKey is applied to both lists
ComputeKeys ==
  /\ keysOut = <<>>
  /\ keysOut' = <<getTagKey(tagsIn[1]), getTagKey(tagsIn[2])>>
  /\ UNCHANGED <<upstream, engineVars, engineHistory, tagsIn, readable, dedupeVars>>

NextKey == ComputeKeys

SpecKey == InitKey /\ [][NextKey]_vars

\* ------------------------------------- SpecList: makeReadableList alone
\* the strings the arrays hold
ListItems == {<<"A">>, <<"B">>, <<"a", "b">>}

\* the arrays makeReadableList is called with
ReadableLists == UNION {[1..n -> ListItems] : n \in 0..MaxListLen}

InitList ==
  /\ InitEngine
  /\ ttlMs = oneDayMs
  /\ upstream = [id \in 1..MaxId |-> [ok |-> TRUE, file_ext |-> "jpg"]]
  /\ tagsIn = << <<>>, <<>> >>
  /\ keysOut = <<>>
  /\ readable \in {[arg |-> l, list |-> l, ret |-> <<>>, called |-> FALSE] :
                      l \in ReadableLists}

\* makeReadableList is applied to the array
MakeReadableList ==
  /\ ~readable.called
  /\ LET r == makeReadableList(readable.list)
     IN readable' = [readable EXCEPT !.list = r.list, !.ret = r.ret, !.called = TRUE]
  /\ UNCHANGED <<upstream, engineVars, engineHistory, tagsIn, keysOut, dedupeVars>>

NextList == MakeReadableList

SpecList == InitList /\ [][NextList]_vars

\* ------------------------------------------- SpecDedupe: DedupeCache alone
InitDedupe ==
  /\ InitEngine
  /\ upstream = [id \in 1..MaxId |-> [ok |-> TRUE, file_ext |-> "jpg"]]
  /\ ttlMs \in TtlChoices
  /\ tagsIn = << <<>>, <<>> >>
  /\ readable = NoList
  /\ keysOut = <<>>

\* dedupeCache.tryAdd(key)
TryAdd(key) ==
  LET r == tryAdd(cache, ttlMs, now, key)
  IN /\ cache' = r.cache
     /\ lastClaim' = [key |-> key, at |-> now, ret |-> r.ret,
                      found |-> IF key \in DOMAIN cache THEN cache[key] ELSE Null]
     /\ UNCHANGED <<engineVars, engineHistory, inputVars, ttlMs, now, nextSweep>>

\* time passes, up to the moment the cleanup interval is due
Advance(t) ==
  /\ t > now
  /\ t <= nextSweep
  /\ now' = t
  /\ UNCHANGED <<engineVars, engineHistory, inputVars, cache, ttlMs, nextSweep, lastClaim>>

\* the cleanup interval fires
Cleanup ==
  /\ now = nextSweep
  /\ cache' = cleanup(cache, now)
  /\ nextSweep' = nextSweep + cleanupIntervalMs
  /\ UNCHANGED <<engineVars, engineHistory, inputVars, ttlMs, now, lastClaim>>

NextDedupe ==
  \/ \E key \in ClaimKeys : TryAdd(key)
  \/ \E t \in ClockTimes : Advance(t)
  \/ Cleanup

SpecDedupe == InitDedupe /\ [][NextDedupe]_vars

\* ------------------------------------------------------------------ claims
\* the ids of the records of an answer
IdsOf(data) == {data[i].id : i \in 1..Len(data)}

\* the largest element of a non-empty set of integers
MaxOf(S) == CHOOSE x \in S : \A y \in S : y <= x

\* the smallest element of a non-empty set of integers
MinOf(S) == CHOOSE x \in S : \A y \in S : x <= y

\* the GET of the last finished poll resolved
FetchSucceeded == lastPoll.outcome \in {"saved", "no new images", "parse failed"}

\* the ids of the last answer that are above the cursor the poll had read
NewIds == {x \in IdsOf(lastPoll.data) : x > lastPoll.lastId}

\* C1: the cursor stored for a tag key never decreases: every write of a poll stores a
\* value greater than or equal to the value stored immediately before
C1_CursorNeverDecreases ==
  [][\A k \in DOMAIN last_ids' :
       last_ids'[k] >= (IF k \in DOMAIN last_ids THEN last_ids[k] ELSE 0)]_vars

\* C2: each tag key has at most one poll in flight at every moment
C2_OnePollInFlightPerKey ==
  \A p, q \in polls : p.key = q.key => p = q

\* C3: within one poll every published id is above the cursor the poll read, the ids are
\* published in strictly ascending order whatever the order of the answer, and every
\* published id was in the answer
C3_PublishedAscendingAboveCursor ==
  /\ \A i \in 1..Len(lastPoll.published) :
       /\ lastPoll.published[i] > lastPoll.lastId
       /\ lastPoll.published[i] \in IdsOf(lastPoll.data)
  /\ \A i, j \in 1..Len(lastPoll.published) :
       i < j => lastPoll.published[i] < lastPoll.published[j]

\* C3 witness: an answer that came out of order and from which two items were published
C3_Witness ==
  /\ Len(lastPoll.published) = 2
  /\ Len(lastPoll.data) = 2
  /\ lastPoll.data[1].id > lastPoll.data[2].id

\* what C4 says the stored cursor is after a poll
CursorAfterPoll ==
  IF NewIds # {} THEN lastPoll.after = MaxOf(NewIds) ELSE lastPoll.after = lastPoll.before

LastDeliveriesDone == \A d \in deliveries : d.pid # lastPoll.pid

\* the POSTs of the last poll's deliveries that one destination of one feed got for one item
PostsTo(feed, url, item) ==
  {e \in lastPosts : e.feed = feed /\ e.url = url /\ e.item = item}

\* C5: when a poll published k items and every webhook POST succeeded, each destination of
\* each feed subscribed to the key got exactly k POSTs, one per item; and a poll whose
\* records are all well formed publishes every id above its cursor and stores the highest
C5_EachDestinationGetsEachItemOnce ==
  /\ (lastPoll.outcome = "saved" /\ LastDeliveriesDone /\ \A e \in lastPosts : e.outcome = "ok")
       => \A i \in 1..Len(lastPoll.subscribers) :
            \A j \in 1..Len(lastPoll.subscribers[i].webhookDestinations) :
              LET feed == lastPoll.subscribers[i].name
                  url == lastPoll.subscribers[i].webhookDestinations[j].url
              IN /\ \A k \in 1..Len(lastPoll.published) :
                      Cardinality(PostsTo(feed, url, lastPoll.published[k])) = 1
                 /\ Cardinality({e \in lastPosts : e.feed = feed /\ e.url = url})
                      = Len(lastPoll.published)
  /\ (FetchSucceeded /\ \A i \in 1..Len(lastPoll.data) : lastPoll.data[i].ok)
       => /\ {lastPoll.published[k] : k \in 1..Len(lastPoll.published)} = NewIds
          /\ NewIds # {} => lastPoll.after = MaxOf(NewIds)

\* a step that finishes a poll
PollFinishes == lastPoll'.pid # lastPoll.pid

\* C6: a poll whose fetch or parsing fails leaves the stored cursor as it was, starts no
\* other poll and leaves the timers armed
C6_FailureKeepsCursorAndTimer ==
  [][(PollFinishes /\ lastPoll'.outcome \in {"fetch failed", "parse failed"})
       => /\ last_ids' = last_ids
          /\ activeTagTimers' = activeTagTimers
          /\ tagConfigs' = tagConfigs
          /\ nextPid' = nextPid
          /\ polls' \subseteq polls]_vars

\* C6 witness: a poll published an item, failed to parse the next record, and the cursor
\* is where it was while the timer of the key is armed
C6_Witness ==
  /\ lastPoll.outcome = "parse failed"
  /\ Len(lastPoll.published) = 1
  /\ lastPoll.after = lastPoll.before
  /\ lastPoll.key \in DOMAIN activeTagTimers

\* a continuation of handleNewImage runs
DeliveryStep ==
  \E d \in deliveries : PostOk(d) \/ Post429(d) \/ PostErr(d) \/ SleepDone(d)

\* C7: no delivery step writes a cursor, a timer, a poll configuration or a poll; and the
\* poll stores its cursor while every delivery it caused still waits for its first POST
C7_DeliveryNeverTouchesScheduler ==
  [][/\ DeliveryStep =>
          /\ last_ids' = last_ids
          /\ activeTagTimers' = activeTagTimers
          /\ tagConfigs' = tagConfigs
          /\ polls' = polls
          /\ nextPid' = nextPid
     /\ (PollFinishes /\ lastPoll'.outcome = "saved") =>
          /\ last_ids'[lastPoll'.key] = lastPoll'.published[Len(lastPoll'.published)]
          /\ \A d \in deliveries' :
               d.pid = lastPoll'.pid => d.idx = 1 /\ d.attempts = 1 /\ d.st = "posting"]_vars

\* C7 witness: the cursor of a poll is stored although a delivery it caused was rate
\* limited and another failed
C7_Witness ==
  /\ lastPoll.outcome = "saved"
  /\ last_ids[lastPoll.key] = lastPoll.after
  /\ \E e \in lastPosts : e.outcome = "429"
  /\ \E e \in lastPosts : e.outcome = "error"
  /\ lastPoll.key \in DOMAIN activeTagTimers

\* the tags of a list without their letter case
TagSet(tags) == {toLowerCase(tags[i]) : i \in 1..Len(tags)}

\* C8: two tag lists with the same tags up to letter case, order and repetition get the
\* same key
C8_KeyIsCanonical ==
  (keysOut # <<>> /\ TagSet(tagsIn[1]) = TagSet(tagsIn[2])) => keysOut[1] = keysOut[2]

\* the tag key of the stored feed of a name
KeyOfStored(name) == getTagKey((CHOOSE r \in feeds : r.name = name).tags)

\* a stored feed with at least one webhook
Startable(name) ==
  /\ \E r \in feeds : r.name = name
  /\ Len(getResolvedFeedConfigByName(St, name).webhookDestinations) > 0

\* C9: startFeed of a stored feed with a webhook, made while another active feed has the
\* same tag key, succeeds: both feeds are active, each with a dispatcher subscribed to
\* the key, and the key has its one timer
C9_SecondFeedOfAKeyStarts ==
  [][\A name \in CallNames :
       (/\ StartFeed(name)
        /\ Startable(name)
        /\ \E g \in activeFeeds : g.name # name /\ g.tagKey = KeyOfStored(name))
       => /\ \E f \in activeFeeds' : f.name = name
          /\ \A g \in activeFeeds : g \in activeFeeds'
          /\ \A f \in activeFeeds' :
               \E i \in 1..Len(listeners') : listeners'[i] = [topic |-> f.tagKey, feed |-> f]
          /\ KeyOfStored(name) \in DOMAIN activeTagTimers']_vars

\* the interval the stored row of an active feed asks for
RequestedInterval(f) ==
  Coalesce((CHOOSE r \in feeds : r.name = f.name).pollingIntervalMs, DefaultPollingIntervalMs)

\* C10: the interval of the configuration and of the running timer of a tag key is the
\* minimum of the intervals of the active feeds of that key
C10_IntervalIsMinimumOfSharers ==
  \A k \in DOMAIN activeTagTimers :
    LET sharers == {f \in activeFeeds : f.tagKey = k}
    IN sharers # {} =>
         /\ tagConfigs[k].pollIntervalMs = MinOf({RequestedInterval(f) : f \in sharers})
         /\ activeTagTimers[k] = tagConfigs[k].pollIntervalMs

\* C11: tryAdd returns true for a key that has no entry, false while fewer than ttlMs
\* milliseconds have passed since the successful claim of the key, and true once more
\* than ttlMs milliseconds have passed, whether or not the cleanup has run since
C11_ClaimOncePerWindow ==
  lastClaim.key # "" =>
    /\ lastClaim.found = Null => lastClaim.ret
    /\ (lastClaim.found # Null /\ lastClaim.at < lastClaim.found) => ~lastClaim.ret
    /\ (lastClaim.found # Null /\ lastClaim.at > lastClaim.found) => lastClaim.ret

\* C12: a feed whose destinations were sent an item is not sent that item again when the
\* item is published again (every behaviour here lies within one dedupe window)
C12_NoSecondDelivery ==
  [][PollFinishes =>
       \A d \in deliveries' \ deliveries :
         [feed |-> d.feed, item |-> d.item] \notin delivered]_vars

\* the answered POSTs of one item of one feed to one destination
PostsOf(e) == {x \in lastPosts : x.feed = e.feed /\ x.url = e.url /\ x.item = e.item}

\* the delivery of e's item by e's feed, for the last poll, is waiting on e's destination
AtDestination(e) ==
  \E d \in deliveries :
    d.pid = lastPoll.pid /\ d.feed = e.feed /\ d.item = e.item /\ d.dests[d.idx].url = e.url

\* at most maxAttempts POSTs go to a destination for an item, none after a success, and a
\* 429 before the last attempt is followed by another attempt
AttemptsBounded ==
  /\ \A d \in deliveries : d.attempts <= maxAttempts
  /\ \A e \in lastPosts :
       /\ e.attempt \in 1..maxAttempts
       /\ \A x \in PostsOf(e) : x.attempt = e.attempt => x = e
       /\ e.outcome = "ok" => (~AtDestination(e) /\ \A x \in PostsOf(e) : x.attempt <= e.attempt)
       /\ (e.outcome = "429" /\ ~AtDestination(e)) =>
            (e.attempt = maxAttempts \/ \E x \in PostsOf(e) : x.attempt = e.attempt + 1)

After(d) == {x \in deliveries' : x.pid = d.pid /\ x.feed = d.feed /\ x.item = d.item}

\* C14: after a 429 on attempt n with retry_after = r seconds the dispatcher sleeps for a
\* delay of at least r s and less than r + n s before it attempts the same destination
\* again, and that attempt is attempt n + 1 of the same five
C14_BackoffWithinBounds ==
  [][/\ \A d \in deliveries' :
          d.st = "sleeping" =>
            /\ d.attempts \in 1..maxAttempts
            /\ d.retryAfter * 1000 <= d.delayMs
            /\ d.delayMs < (d.retryAfter + d.attempts) * 1000
     /\ \A d \in deliveries :
          /\ Post429Storm(d) =>
               \A x \in After(d) :
                 x.st = "sleeping" /\ x.idx = d.idx /\ x.attempts = d.attempts
          /\ (SleepDone(d) /\ d.attempts < maxAttempts) =>
               /\ After(d) # {}
               /\ \A x \in After(d) :
                    x.st = "posting" /\ x.idx = d.idx /\ x.attempts = d.attempts + 1]_vars

\* C14 witness: the third attempt got a 429 with retry_after = 2 and the dispatcher sleeps
\* 2 s plus a jitter of nearly 3 s
C14_Witness ==
  \E d \in deliveries :
    d.st = "sleeping" /\ d.attempts = 3 /\ d.retryAfter = 2 /\ d.delayMs = 4997

\* the answered POSTs of one item of one feed
PostsOfItem(feed, item) == {e \in lastPosts : e.feed = feed /\ e.item = item}

\* the handleNewImage call of a feed for an item of the last poll has returned
Returned(feed, item) ==
  \A d \in deliveries : ~(d.pid = lastPoll.pid /\ d.feed = feed /\ d.item = item)

\* C15: a non-429 error on a destination is the last POST that destination gets for the
\* item, and once a feed has handled an item every destination of the feed was attempted,
\* whatever the other destinations answered
C15_DestinationsAreIsolated ==
  /\ \A e \in lastPosts :
       e.outcome = "error" => (~AtDestination(e) /\ \A x \in PostsOf(e) : x.attempt <= e.attempt)
  /\ \A i \in 1..Len(lastPoll.subscribers) : \A k \in 1..Len(lastPoll.published) :
       LET feed == lastPoll.subscribers[i]
           item == lastPoll.published[k]
       IN (PostsOfItem(feed.name, item) # {} /\ Returned(feed.name, item)) =>
            \A j \in 1..Len(feed.webhookDestinations) :
              \E e \in PostsOfItem(feed.name, item) : e.url = feed.webhookDestinations[j].url

\* C15 witness: the first destination was given up, after an error or after five 429
\* answers, and the second destination got the item
C15_Witness ==
  /\ deliveries = {}
  /\ \E e \in lastPosts :
       /\ e.url = "u1"
       /\ e.outcome = "error" \/ (e.outcome = "429" /\ e.attempt = maxAttempts)
       /\ \E x \in lastPosts : x.item = e.item /\ x.feed = e.feed /\ x.url = "u2" /\ x.outcome = "ok"

RECURSIVE EachHandler(_, _)
\* one line per subscriber, in the order of the subscribers, for an item
EachHandler(subs, item) ==
  IF subs = <<>> THEN <<>>
  ELSE <<[feed |-> Head(subs).name, item |-> item]>> \o EachHandler(Tail(subs), item)

RECURSIVE EachItem(_, _)
\* the lines of the subscribers for each item, in the order of the items
EachItem(subs, items) ==
  IF items = <<>> THEN <<>>
  ELSE EachHandler(subs, Head(items)) \o EachItem(subs, Tail(items))

\* the handler calls the last poll owes: every subscriber of the key at the time of the
\* publishing, in subscription order, for each published item in turn
ExpectedCalls == EachItem(lastPoll.subscribers, lastPoll.published)

\* C16: publishing an item calls exactly the handlers subscribed to its topic at that
\* moment, synchronously and in subscription order; a new subscriber goes last, and
\* subscribing delivers nothing that was published before
C16_PublishCallsCurrentSubscribersInOrder ==
  [][/\ PollFinishes =>
          /\ invoked' = ExpectedCalls'
          /\ \A d \in deliveries' \ deliveries :
               \E i \in 1..Len(invoked') : invoked'[i] = [feed |-> d.feed, item |-> d.item]
     /\ listeners' # listeners =>
          /\ Len(listeners') = Len(listeners) + 1
          /\ SubSeq(listeners', 1, Len(listeners)) = listeners
          /\ deliveries' = deliveries
          /\ invoked' = invoked
          /\ delivered' = delivered]_vars

\* C16 witness: item 1 was published while its key had no subscriber (the cursor went to 1
\* and nobody was sent the item); two dispatchers subscribed later, f2 before f1, and were
\* called in that order for item 2 only
C16_Witness ==
  /\ upstream[1] = [ok |-> TRUE, file_ext |-> "jpg"]
  /\ lastPoll.lastId = 1
  /\ lastPoll.published = <<2>>
  /\ Len(lastPoll.subscribers) = 2
  /\ lastPoll.subscribers[1].name = "f2"
  /\ lastPoll.subscribers[2].name = "f1"
  /\ invoked = <<[feed |-> "f2", item |-> 2], [feed |-> "f1", item |-> 2]>>
  /\ \A e \in delivered : e.item # 1

\* a handler of the last poll failed on one of the published items
HandlerFailed ==
  /\ lastPoll.subscribers # <<>>
  /\ \E k \in 1..Len(lastPoll.published) :
       upstream[lastPoll.published[k]].file_ext \notin KnownFileExts

\* C17: when a handler fails on a published item the other handlers of the topic are still
\* called for it, and the poll goes on: it publishes the rest of the batch to every
\* handler, the items the handlers can render are sent, and the cursor is written
C17_HandlerFailureIsIsolated ==
  (FetchSucceeded /\ HandlerFailed) =>
    /\ invoked = ExpectedCalls
    /\ \A i \in 1..Len(lastPoll.subscribers) : \A k \in 1..Len(lastPoll.published) :
         LET feed == lastPoll.subscribers[i]
             item == lastPoll.published[k]
         IN (upstream[item].file_ext \in KnownFileExts /\ Len(feed.webhookDestinations) > 0)
              => [feed |-> feed.name, item |-> item] \in delivered
    /\ (\A i \in 1..Len(lastPoll.data) : lastPoll.data[i].ok) =>
         /\ lastPoll.outcome = "saved"
         /\ {lastPoll.published[k] : k \in 1..Len(lastPoll.published)} = NewIds
         /\ lastPoll.after = MaxOf(NewIds)

\* C17 witness: two dispatchers are subscribed to the key, the first item of the batch
\* makes both fail, the second item reaches both and the cursor is stored
C17_Witness ==
  /\ lastPoll.outcome = "saved"
  /\ lastPoll.published = <<1, 2>>
  /\ upstream[1].file_ext \notin KnownFileExts
  /\ upstream[2].file_ext \in KnownFileExts
  /\ Len(lastPoll.subscribers) = 2
  /\ lastPoll.subscribers[1].name # lastPoll.subscribers[2].name
  /\ Len(invoked) = 4
  /\ lastPoll.after = 2
  /\ {[feed |-> "f1", item |-> 2], [feed |-> "f2", item |-> 2]} \subseteq delivered
  /\ \A e \in delivered : e.item # 1

\* ------------------------------------------------------------------- C18
\* the stored row of a name, and the canonical key of its tags
StoredRow(name) == CHOOSE r \in feeds : r.name = name

\* the poll configuration the scheduler derives from a stored row
PollConfigOf(row) ==
  [pollIntervalMs |-> Coalesce(row.pollingIntervalMs, DefaultPollingIntervalMs),
   batchSize |-> Coalesce(row.batchSize, DefaultBatchSize)]

\* the positions on the bus where a dispatcher of the name listens to the key
SubscriptionsOf(m, name, tagKey) ==
  {i \in 1..Len(m.listeners) : m.listeners[i].feed.name = name /\ m.listeners[i].topic = tagKey}

\* what a successful startFeed(name) leaves behind
Started(before, after, name) ==
  LET row == StoredRow(name)
      tagKey == getTagKey(row.tags)
  IN /\ IsActive(after, name)
     /\ tagKey \in DOMAIN after.tagConfigs
     /\ after.tagConfigs[tagKey] = PollConfigOf(row)
     /\ tagKey \in DOMAIN after.activeTagTimers
     /\ after.activeTagTimers[tagKey] = PollConfigOf(row).pollIntervalMs
     /\ \E p \in after.polls \ before.polls : p.key = tagKey /\ p.pid = before.nextPid
     /\ Cardinality(SubscriptionsOf(after, name, tagKey)) = 1

\* C18: in every reachable state, a startFeed(name) that succeeds for a feed that was not
\* active returns with the feed active, its tag key registered with the feed's poll
\* configuration and a live timer, an immediate poll of the key begun, and exactly one
\* dispatcher of the feed subscribed to the key.
C18_StartFeedSucceedsCompletely ==
  \A name \in RegistryNames :
    LET r == FeedManager_startFeed(St, name)
    IN (~IsActive(St, name) /\ r.ret) => Started(St, r.m, name)

\* a state right after such a call: f2, given tags of its own, was started next to a running
\* f1, and the second poll is the immediate one of f2's key
C18_Witness ==
  /\ IsActive(St, "f1")
  /\ IsActive(St, "f2")
  /\ nextPid = 3
  /\ \E p \in polls : p.pid = 2 /\ p.key = getTagKey(StoredRow("f2").tags)
  /\ Cardinality(SubscriptionsOf(St, "f2", getTagKey(StoredRow("f2").tags))) = 1

\* ------------------------------------------------------------------- C19
\* the name has a stored row, and no stored webhook is joined to it
ResolvesToNoDestination(m, name) ==
  /\ FeedRows(m, name) # {}
  /\ Len(getResolvedFeedConfigByName(m, name).webhookDestinations) = 0

\* C19: in every reachable state, startFeed(name) on a stored feed that resolves to zero
\* webhook destinations fails and changes nothing: the active set, the scheduler's
\* configurations and timers and the bus subscriptions are as before the call.
C19_NoDestinationNoStart ==
  \A name \in RegistryNames :
    LET r == FeedManager_startFeed(St, name)
    IN ResolvesToNoDestination(St, name) =>
         /\ ~r.ret
         /\ r.m.activeFeeds = activeFeeds
         /\ r.m.tagConfigs = tagConfigs
         /\ r.m.activeTagTimers = activeTagTimers
         /\ r.m.listeners = listeners

\* ------------------------------------------------------------------- C20
\* the dispatcher activeFeeds holds under a name
InstanceOf(m, name) == CHOOSE f \in m.activeFeeds : f.name = name

\* the feed's handler runs when the item is published on the key in state m
Handles(m, name, tagKey, id) ==
  LET published == emitNewImage([m EXCEPT !.invoked = <<>>], m.nextPid, tagKey,
                                parseDanbooruPost(RawPost(id)))
  IN \E i \in 1..Len(published.invoked) : published.invoked[i].feed = name

\* C20: in every reachable state, stopFeed(name) on an active feed returns with the feed out
\* of the active set, its dispatcher off the bus, so that it handles no item published on its
\* key afterwards, and the timer of its tag key stopped.
C20_StopFeedDetaches ==
  \A name \in RegistryNames :
    LET r == FeedManager_stopFeed(St, name)
        feedInstance == InstanceOf(St, name)
    IN IsActive(St, name) =>
         /\ ~IsActive(r.m, name)
         /\ \A i \in 1..Len(r.m.listeners) : r.m.listeners[i].feed # feedInstance
         /\ \A id \in 1..MaxId : ~Handles(r.m, name, feedInstance.tagKey, id)
         /\ feedInstance.tagKey \notin DOMAIN r.m.activeTagTimers

\* ------------------------------------------------------------------- C21
\* C21: in every reachable state, startFeed(name) on an active feed changes nothing (no
\* second subscription, timer or immediate poll), stopFeed(name) on a feed that is not
\* active changes nothing, and a second startFeed (stopFeed) right after the first leaves
\* the state the first call left.
C21_StartStopIdempotent ==
  \A name \in RegistryNames :
    LET started == FeedManager_startFeed(St, name).m
        stopped == FeedManager_stopFeed(St, name).m
    IN /\ IsActive(St, name) => started = St
       /\ ~IsActive(St, name) => stopped = St
       /\ FeedManager_startFeed(started, name).m = started
       /\ FeedManager_stopFeed(stopped, name).m = stopped

\* the cases at hand: f1 runs, so that startFeed("f1") meets an active feed and
\* stopFeed("f1") followed by stopFeed("f1") meets a stopped one, while f2 is stopped
C21_Witness ==
  /\ IsActive(St, "f1")
  /\ ~IsActive(St, "f2")
  /\ FeedManager_startFeed(St, "f1").ret
  /\ FeedManager_stopFeed(St, "f1").ret
  /\ ~FeedManager_stopFeed(FeedManager_stopFeed(St, "f1").m, "f1").ret
  /\ Len(listeners) = 1

\* ------------------------------------------------------------------- C22
\* C22: every name in the active-feed set is the name of a stored feed row.
C22_ActiveNamesAreStored ==
  \A f \in activeFeeds : FeedRows(St, f.name) # {}

\* ------------------------------------------------------------------- C23
\* the canonical tag keys the active feeds were started with
ActiveKeys == {f.tagKey : f \in activeFeeds}

\* C23: a tag key has a live poll timer if and only if at least one active feed has that
\* canonical tag key.
C23_TimersMatchActiveFeeds ==
  DOMAIN activeTagTimers = ActiveKeys

\* ------------------------------------------------------------------- C24
\* a list of webhook names with a name that has no row in webhooks
HasUnknownWebhook(m, names) == \E i \in 1..Len(names) : WebhookRows(m, names[i]) = {}

\* the tables of the store are the same in two states
SameStore(a, b) ==
  /\ a.webhooks = b.webhooks
  /\ a.feeds = b.feeds
  /\ a.feeds_to_webhooks = b.feeds_to_webhooks
  /\ a.last_ids = b.last_ids
  /\ a.sqlite_sequence = b.sqlite_sequence

\* C24: in every reachable state, createFeed with a webhookNames list that holds a name
\* absent from webhooks throws and leaves the store as it was, no feed row and no join row
\* written, also when the names before it in the list are known.
C24_CreateFeedUnknownWebhookWritesNothing ==
  \A config \in CreateInputs :
    LET r == createFeed(St, config)
    IN HasUnknownWebhook(St, config.webhookNames) => r.threw /\ SameStore(r.m, St)

\* the case at hand: a feed was created before, the name f1 is free again, w1 is stored and
\* w9 is not, and createFeed of f1 with <<w1, w9>> throws
C24_Witness ==
  /\ sqlite_sequence.feeds > Cardinality(InitFeeds)
  /\ FeedRows(St, "f5") # {}
  /\ FeedRows(St, "f1") = {}
  /\ WebhookRows(St, "w1") # {}
  /\ createFeed(St, [name |-> "f1", tags |-> << <<"a">> >>, webhookNames |-> <<"w1", "w9">>,
                     pollingIntervalMs |-> 60000, batchSize |-> 3]).threw

\* ------------------------------------------------------------------- C25
\* the new name of an update is the name of another stored feed
NameTaken(m, oldName, newConfig) ==
  /\ Has(newConfig, "name")
  /\ newConfig.name # oldName
  /\ FeedRows(m, newConfig.name) # {}

\* the update names a webhook that is not stored
NamesUnknownWebhook(m, newConfig) ==
  Has(newConfig, "webhookNames") /\ HasUnknownWebhook(m, newConfig.webhookNames)

\* C25: in every reachable state, updateFeed of a stored feed with an unknown webhook name
\* or with a new name that is taken throws and writes nothing: the feed row, its joins and
\* the running state of the feed are as before the call.
C25_UpdateFeedFailsWithoutWriting ==
  \A oldName \in RegistryNames : \A newConfig \in UpdateInputs :
    LET r == updateFeed(St, oldName, newConfig)
    IN (/\ FeedRows(St, oldName) # {}
        /\ NameTaken(St, oldName, newConfig) \/ NamesUnknownWebhook(St, newConfig))
       => /\ r.threw
          /\ SameStore(r.m, St)
          /\ r.m.activeFeeds = activeFeeds
          /\ r.m.listeners = listeners
          /\ r.m.activeTagTimers = activeTagTimers

\* ------------------------------------------------------------------- C26
\* no two stored webhooks share a name or a URL, no two stored feeds share a name
NamesAndUrlsUnique ==
  /\ \A v, w \in webhooks : (v.name = w.name \/ v.url = w.url) => v = w
  /\ \A f, g \in feeds : f.name = g.name => f = g

\* the calls that would store a second webhook of a name or URL, or a second feed of a name,
\* throw and leave the store as it was
DuplicatesRefused ==
  /\ \A webhook \in WebhookInputs :
       (\E w \in webhooks : w.name = webhook.name \/ w.url = webhook.url)
       => createWebhook(St, webhook).threw /\ SameStore(createWebhook(St, webhook).m, St)
  /\ \A name \in WebhookNames : \A newWebhook \in WebhookInputs :
       (\E v, w \in webhooks :
          v.name = name /\ w.id # v.id /\ (w.name = newWebhook.name \/ w.url = newWebhook.url))
       => /\ updateWebhook(St, name, newWebhook).threw
          /\ SameStore(updateWebhook(St, name, newWebhook).m, St)
  /\ \A config \in CreateInputs :
       FeedRows(St, config.name) # {}
       => createFeed(St, config).threw /\ SameStore(createFeed(St, config).m, St)
  /\ \A oldName \in RegistryNames : \A newConfig \in StoreUpdateInputs :
       (FeedRows(St, oldName) # {} /\ NameTaken(St, oldName, newConfig))
       => /\ updateFeed(St, oldName, newConfig).threw
          /\ SameStore(updateFeed(St, oldName, newConfig).m, St)

DestinationsOf(m, row) == createResolvedFeedConfig(row, JoinedWebhooks(m, row.id)).webhookDestinations

\* C27: in every reachable state, a deleteWebhook(name) that returns true leaves no join row
\* of the deleted webhook, every feed resolving to the webhooks it had without the deleted
\* one, and the feed rows as they were.
C27_DeleteWebhookCascades ==
  \A name \in WebhookNames :
    LET r == deleteWebhook(St, name)
        gone == CHOOSE w \in WebhookRows(St, name) : TRUE
    IN r.ret =>
         /\ \A w \in r.m.webhooks : w.id # gone.id
         /\ \A j \in r.m.feeds_to_webhooks : j.webhook_id # gone.id
         /\ r.m.feeds_to_webhooks = {j \in feeds_to_webhooks : j.webhook_id # gone.id}
         /\ r.m.feeds = feeds
         /\ \A row \in feeds :
              DestinationsOf(r.m, row) =
                SelectSeq(DestinationsOf(St, row), LAMBDA d : d.name # gone.name)

\* a state right after such a call: w2, which f1 and f2 were joined to, is gone, f1 is still
\* joined to w1 and f2 to nothing
C27_Witness ==
  /\ WebhookRows(St, "w2") = {}
  /\ WebhookRows(St, "w1") # {}
  /\ feeds_to_webhooks = {[feed_id |-> 1, webhook_id |-> 1]}
  /\ Cardinality(feeds) = 3
  /\ \E row \in feeds : row.id = 2 /\ DestinationsOf(St, row) = <<>>

\* ------------------------------------------------------------------- C28
\* the operations on a feed name report not-found and change nothing
FeedNotFound(name) ==
  /\ \A newConfig \in UpdateInputs :
       updateFeed(St, name, newConfig) = [m |-> St, threw |-> TRUE]
  /\ deleteFeed(St, name) = [m |-> St, ret |-> FALSE]
  /\ FeedManager_startFeed(St, name) = [m |-> St, ret |-> FALSE]
  /\ FeedManager_stopFeed(St, name) = [m |-> St, ret |-> FALSE]
  /\ getFeedLastId(St, name) = -1
  /\ \A newLastId \in 0..MaxId :
       updateFeedLastId(St, name, newLastId) = [m |-> St, ret |-> FALSE]

\* the operations on a webhook name report not-found and change nothing
WebhookNotFound(name) ==
  /\ \A newWebhook \in WebhookInputs :
       updateWebhook(St, name, newWebhook) = [m |-> St, threw |-> TRUE]
  /\ deleteWebhook(St, name) = [m |-> St, ret |-> FALSE]

\* C28: in every reachable state, an operation on a feed or webhook name that is not stored
\* reports not-found (throws, or returns false or -1) and mutates nothing: rows, cursors,
\* the active-feed set, timers and subscriptions are unchanged.
C28_UnknownNameChangesNothing ==
  /\ \A name \in RegistryNames : FeedRows(St, name) = {} => FeedNotFound(name)
  /\ \A name \in WebhookNames : WebhookRows(St, name) = {} => WebhookNotFound(name)

\* ------------------------------------------------------------------- C29
\* the feed of a stored row runs in m: active, its dispatcher subscribed to its key, the
\* timer of the key live
Running(m, row) ==
  /\ IsActive(m, row.name)
  /\ SubscriptionsOf(m, row.name, getTagKey(row.tags)) # {}
  /\ getTagKey(row.tags) \in DOMAIN m.activeTagTimers

\* C29: startAllFeeds on a fresh process leaves every stored feed that resolves to at least
\* one destination running, feeds that share a tag key with another stored feed included,
\* and no other feed active.
C29_StartAllRehydratesEveryFeed ==
  Fresh =>
    LET m == startAllFeeds(St)
    IN /\ \A row \in feeds : Len(DestinationsOf(St, row)) > 0 => Running(m, row)
       /\ \A f \in m.activeFeeds :
            \E row \in feeds : row.name = f.name /\ Len(DestinationsOf(St, row)) > 0

\* ------------------------------------------------------------------- C30
\* a step in which the timer of some tag key is stopped
TimerStopped == \E tagKey \in DOMAIN activeTagTimers : tagKey \notin DOMAIN activeTagTimers'

\* C30: a poll of a key begins only in a step that leaves the key's timer live, so that
\* after stop(tagKey) no poll of the key begins until a later start(tagKey); and the step
\* that stops a timer aborts nothing: the polls and deliveries in flight stay in flight.
C30_StopEndsSchedulingOnly ==
  [][/\ \A p \in polls' \ polls : p.key \in DOMAIN activeTagTimers'
     /\ TimerStopped => polls \subseteq polls' /\ deliveries \subseteq deliveries']_vars

\* the case at hand: f1 was stopped while its second poll and a POST were under way; the
\* poll has since completed, published to no subscriber and written the cursor, and the
\* POST is still awaited
C30_Witness ==
  /\ activeFeeds = {}
  /\ DOMAIN activeTagTimers = {}
  /\ lastPoll.pid = 2
  /\ lastPoll.outcome = "saved"
  /\ lastPoll.published # <<>>
  /\ lastPoll.subscribers = <<>>
  /\ lastPoll.after > lastPoll.before
  /\ \E d \in deliveries : d.feed = "f1" /\ d.st = "posting"

\* the ids of the records of a poll's answer above the cursor it read that lack a field
MalformedIds(poll) ==
  {poll.data[i].id : i \in {j \in 1..Len(poll.data) :
                              poll.data[j].id > poll.lastId /\ ~poll.data[j].ok}}

\* the ids of the records of a poll's answer above the cursor it read that are complete
WellFormedIds(poll) ==
  {poll.data[i].id : i \in {j \in 1..Len(poll.data) :
                              poll.data[j].id > poll.lastId /\ poll.data[j].ok}}

\* the ids a poll published
PublishedIds(poll) == {poll.published[i] : i \in 1..Len(poll.published)}

\* C31: a malformed record does not hold the other items back: when a poll failed on a
\* malformed record, the next poll of the key that reads the same cursor and is given the
\* same records does not fail on it again; by then every well-formed record of the answer
\* was published and the stored cursor is at or past the malformed record
C31_MalformedRecordIsPassed ==
  [][(/\ PollFinishes
      /\ lastPoll.outcome = "parse failed"
      /\ lastPoll'.key = lastPoll.key
      /\ lastPoll'.lastId = lastPoll.lastId
      /\ lastPoll'.data = lastPoll.data)
       => /\ lastPoll'.outcome # "parse failed"
          /\ WellFormedIds(lastPoll') \subseteq
               (PublishedIds(lastPoll) \cup PublishedIds(lastPoll'))
          /\ \A x \in MalformedIds(lastPoll') : lastPoll'.after >= x]_vars

RECURSIVE EachThenComma(_)
\* every element of a list followed by ", "
EachThenComma(list) ==
  IF list = <<>> THEN <<>> ELSE Head(list) \o <<",", " ">> \o EachThenComma(Tail(list))

\* the text C32 gives for a list
ReadableText(list) ==
  CASE Len(list) = 0 -> <<>>
    [] Len(list) = 1 -> list[1]
    [] Len(list) = 2 -> list[1] \o <<" ", "a", "n", "d", " ">> \o list[2]
    [] OTHER -> EachThenComma(SubSeq(list, 1, Len(list) - 1))
                  \o <<"a", "n", "d", " ">> \o list[Len(list)]

\* C32: makeReadableList returns "" for [], A for [A], "A and B" for [A, B] and, for three
\* elements or more, every element but the last followed by ", " and then "and " and the
\* last element; the array it was given is left as it was
C32_ReadableListForEveryLength ==
  readable.called => /\ readable.ret = ReadableText(readable.arg)
                     /\ readable.list = readable.arg

\* C32 witness: the call was given four elements, returned "A, B, ab, and A" and left the
\* array alone
C32_Witness ==
  /\ readable.called
  /\ readable.arg = << <<"A">>, <<"B">>, <<"a", "b">>, <<"A">> >>
  /\ readable.ret = <<"A", ",", " ", "B", ",", " ", "a", "b", ",", " ", "a", "n", "d", " ", "A">>
  /\ readable.list = readable.arg

\* ------------------------------------------------------------------- C33
\* C33: in every reachable state, stopFeed(name) on an active feed whose row is stored
\* returns with no live timer for the tag key of the feed, whether or not another active
\* feed is subscribed to that key
C33_StopFeedStopsTheTimerUnconditionally ==
  \A name \in RegistryNames :
    LET r == FeedManager_stopFeed(St, name)
    IN (IsActive(St, name) /\ FeedRows(St, name) # {})
         => KeyOfStored(name) \notin DOMAIN r.m.activeTagTimers

\* C33 witness: f1 and f2 are active on the same key, whose timer is live; stopFeed("f1")
\* leaves the key without a timer while f2 is still active and subscribed to it
C33_Witness ==
  /\ IsActive(St, "f1") /\ IsActive(St, "f2")
  /\ InstanceOf(St, "f1").tagKey = KeyOfStored("f1")
  /\ InstanceOf(St, "f2").tagKey = KeyOfStored("f1")
  /\ KeyOfStored("f1") \in DOMAIN activeTagTimers
  /\ LET r == FeedManager_stopFeed(St, "f1")
     IN /\ r.ret
        /\ KeyOfStored("f1") \notin DOMAIN r.m.activeTagTimers
        /\ IsActive(r.m, "f2")
        /\ SubscriptionsOf(r.m, "f2", KeyOfStored("f1")) # {}

\* ------------------------------------------------------------------- C34
\* the name a feed has after updateFeed(oldName, newConfig)
FinalName(oldName, newConfig) ==
  IF Has(newConfig, "name") /\ newConfig.name # "" THEN newConfig.name ELSE oldName

\* C34: in every reachable state, an updateFeed that succeeds on a running feed returns with
\* the final name active and the old name, if it differs, not active, with no dispatcher of
\* the old name left on the old key unless it is the restarted feed's own, with the timer of
\* the new tags' key live, and with no timer left on the old key for this feed
C34_UpdateRestartsRunningFeed ==
  \A oldName \in RegistryNames : \A newConfig \in UpdateInputs :
    LET r == updateFeed(St, oldName, newConfig)
        old == InstanceOf(St, oldName)
        finalName == FinalName(oldName, newConfig)
        newKey == getTagKey((CHOOSE row \in FeedRows(r.m, finalName) : TRUE).tags)
    IN (IsActive(St, oldName) /\ ~r.threw) =>
         /\ IsActive(r.m, finalName)
         /\ finalName # oldName => ~IsActive(r.m, oldName)
         /\ (finalName # oldName \/ newKey # old.tagKey)
              => SubscriptionsOf(r.m, oldName, old.tagKey) = {}
         /\ newKey \in DOMAIN r.m.activeTagTimers
         /\ (newKey # old.tagKey /\ \A f \in r.m.activeFeeds : f.tagKey # old.tagKey)
              => old.tagKey \notin DOMAIN r.m.activeTagTimers

\* ------------------------------------------------------------------- C35
\* C35: a poll that moved the stored cursor forward published every record of its answer
\* that the cursor is now at or past, and published while at least one dispatcher was
\* subscribed to the key
C35_NoItemSkippedSilently ==
  (lastPoll.outcome = "saved" /\ lastPoll.after > lastPoll.before) =>
    /\ lastPoll.subscribers # <<>>
    /\ \A x \in NewIds : x <= lastPoll.after => x \in PublishedIds(lastPoll)

\* ------------------------------------------------------------------- C36
\* C36: an item id is published on a key at most once: a poll that finishes publishes no
\* id that the poll of the same key which finished before it has published
C36_PublishedAtMostOnce ==
  [][(PollFinishes /\ lastPoll'.key = lastPoll.key)
       => PublishedIds(lastPoll') \cap PublishedIds(lastPoll) = {}]_vars

\* ------------------------------------------------------------------- C37
\* the delivery e has not yet finished with the destination url
StillOwes(e, url) == \E j \in e.idx..Len(e.dests) : e.dests[j].url = url

\* C37: a destination of a feed gets the items of a key in ascending order of id: no POST of
\* an item to a destination succeeds while the delivery of an item of the same feed and key
\* with a smaller id has not finished with that destination
C37_DeliveredInAscendingOrder ==
  [][\A d \in deliveries :
       PostOk(d) => ~\E e \in deliveries :
                       /\ e.feed = d.feed
                       /\ e.key = d.key
                       /\ e.item < d.item
                       /\ StillOwes(e, d.dests[d.idx].url)]_vars

\* ------------------------------------------------------------------- C38
\* the answered POSTs of the last poll's delivery of an item of a feed to a destination
PostsFor(feed, item, url) ==
  {e \in lastPosts : e.feed = feed /\ e.item = item /\ e.url = url}

\* the delivery of the item is done with the destination
DoneWith(feed, item, url) ==
  \A d \in deliveries :
    (d.pid = lastPoll.pid /\ d.feed = feed /\ d.item = item) => ~StillOwes(d, url)

\* C38: "failed ... after 5 attempts" is logged for an item and a destination exactly when
\* the delivery is done with the destination, made all 5 attempts and none of them
\* succeeded; a delivery that succeeded, on the fifth attempt too, is not logged as failed
C38_FailureReportIsAccurate ==
  /\ \A l \in failureLog :
       l.pid = lastPoll.pid =>
         /\ Cardinality(PostsFor(l.feed, l.item, l.url)) = maxAttempts
         /\ \A e \in PostsFor(l.feed, l.item, l.url) : e.outcome # "ok"
  /\ \A e \in lastPosts :
       (/\ DoneWith(e.feed, e.item, e.url)
        /\ Cardinality(PostsOf(e)) = maxAttempts
        /\ \A x \in PostsOf(e) : x.outcome # "ok")
         => [pid |-> lastPoll.pid, feed |-> e.feed, item |-> e.item, url |-> e.url] \in failureLog

\* ------------------------------------------------------------------- C39
\* C39: in every reachable state every URL in the webhook cache is the URL of a stored
\* webhook, and createWebhook with a name and a URL that no stored webhook has succeeds
C39_CacheTracksTheTable ==
  /\ \A url \in DOMAIN webhookCache : \E w \in webhooks : w.url = url
  /\ \A webhook \in WebhookInputs :
       (\A w \in webhooks : w.url # webhook.url /\ w.name # webhook.name)
         => ~createWebhook(St, webhook).threw

\* ------------------------------------------------------------------- C40
\* the URLs of a list of destinations
UrlsOf(dests) == {dests[j].url : j \in 1..Len(dests)}

\* the URLs of the webhooks joined to the stored feed of a name
StoredUrls(name) == UrlsOf(getResolvedFeedConfigByName(St, name).webhookDestinations)

\* C40: in every reachable state an active feed whose row is stored has at least one stored
\* destination, its dispatcher holds exactly the stored destinations, and an item published
\* on its key now is POSTed by it to URLs of stored destinations of the feed only
C40_DestinationsFollowTheStore ==
  \A f \in activeFeeds :
    FeedRows(St, f.name) # {} =>
      /\ StoredUrls(f.name) # {}
      /\ UrlsOf(f.webhookDestinations) = StoredUrls(f.name)
      /\ \A id \in 1..MaxId :
           \A d \in emitNewImage(St, nextPid, f.tagKey, parseDanbooruPost(RawPost(id))).deliveries
                      \ deliveries :
             d.feed = f.name => d.dests[d.idx].url \in StoredUrls(f.name)

====
